---- MODULE Spec2Model ----
(***************************************************************************)
(* A model of the tech-transfer scrapers of andrew-medrano/scraping_agent: *)
(* the per-site store file and its merge (_save_results), the detail-page  *)
(* worker (process_detail_page), the crawl loops (scrape) of the           *)
(* uMinnesota/umich, Stanford pooled, MIT and Princeton scrapers, the      *)
(* Stanford stop predicate, the page-range runs of the UCLA scraper, the   *)
(* gathered batches of stanford_scraper.py, the semaphores and pools that  *)
(* bound the detail-page calls in flight, the way a detail URL reaches the *)
(* store through each crawl entry point, and the summarization pipeline    *)
(* that reads the store.                                                   *)
(***************************************************************************)
EXTENDS Integers, Sequences, FiniteSets, TLC

(***************************************************************************)
(* Bounds of the model.                                                    *)
(***************************************************************************)
\* longest result list handed to one _save_results call of SpecMerge
MaxResultsLen == 2

(***************************************************************************)
(* JSON values.  A Python str is a sequence of characters, None and JSON   *)
(* null are JNull, a number is JNum.                                       *)
(***************************************************************************)
JStr(s) == [t |-> "str", s |-> s, n |-> 0]
JNull == [t |-> "null", s |-> <<>>, n |-> 0]
JNum(n) == [t |-> "num", s |-> <<>>, n |-> n]

IsStr(v) == v.t = "str"

\* the detail URLs of the modelled site
U1 == <<"u", "1">>
U2 == <<"u", "2">>
U3 == <<"u", "3">>
URLS == {U1, U2, U3}

\* the five extracted fields of a record
Fields == {"ip_name", "ip_number", "published_date", "ip_description", "patents"}

\* dict.get(key): the value, None when the key is absent
Get(r, k) == IF k \in DOMAIN r THEN r[k] ELSE JNull

\* the all-empty record process_detail_page returns on failure
EmptyRecord(detail_url) ==
    [ip_name |-> JStr(<<>>), ip_number |-> JStr(<<>>), published_date |-> JStr(<<>>),
     ip_description |-> JStr(<<>>), patents |-> JStr(<<>>), page_url |-> JStr(detail_url)]

\* a well-formed record: name and number as extracted, the rest left blank
Rec(detail_url, name, number) ==
    [ip_name |-> JStr(name), ip_number |-> JStr(number), published_date |-> JStr(<<>>),
     ip_description |-> JStr(<<>>), patents |-> JStr(<<>>), page_url |-> JStr(detail_url)]

PageUrls(recs) == {Get(recs[i], "page_url") : i \in DOMAIN recs}

\* no two records of the list share a page_url
UniqueUrls(recs) ==
    \A i, j \in DOMAIN recs : Get(recs[i], "page_url") = Get(recs[j], "page_url") => i = j

(***************************************************************************)
(* The store file data/raw/<university>_raw.json.                          *)
(*   missing     no such file                                              *)
(*   invalid     not parseable as JSON (empty or truncated file)           *)
(*   nonrecords  valid JSON that is not an array of objects, such as [1]   *)
(*   array       a JSON array of records                                   *)
(***************************************************************************)
Missing == [kind |-> "missing", recs |-> <<>>]
Invalid == [kind |-> "invalid", recs |-> <<>>]
NonRecords == [kind |-> "nonrecords", recs |-> <<>>]
Array(recs) == [kind |-> "array", recs |-> recs]

(***************************************************************************)
(* _save_results of uMinnesota/umich: load, merge on page_url, write.      *)
(***************************************************************************)
\* seen_urls = {r.get('page_url'): i for i, r in enumerate(existing_results)}:
\* a later record of the same page_url overwrites the index of an earlier one
seen_urls_of(existing_results) ==
    [url \in PageUrls(existing_results) |->
        CHOOSE i \in DOMAIN existing_results :
            /\ Get(existing_results[i], "page_url") = url
            /\ \A j \in DOMAIN existing_results :
                 Get(existing_results[j], "page_url") = url => j <= i]

\* a merge that forgets the page_url index: every result is appended
RECURSIVE MergeAppendOnly(_, _, _)
MergeAppendOnly(existing_results, seen_urls, results) ==
    IF results = <<>> THEN existing_results
    ELSE MergeAppendOnly(Append(existing_results, Head(results)), seen_urls, Tail(results))

\* a merge that keeps the stored record of a known page_url
RECURSIVE MergeKeepOld(_, _, _)
MergeKeepOld(existing_results, seen_urls, results) ==
    IF results = <<>> THEN existing_results
    ELSE LET result == Head(results)
             url == Get(result, "page_url")
         IN IF url \in DOMAIN seen_urls
            THEN MergeKeepOld(existing_results, seen_urls, Tail(results))
            ELSE MergeKeepOld(Append(existing_results, result),
                              seen_urls @@ (url :> Len(existing_results) + 1),
                              Tail(results))

\* a merge that takes the stored record of a known page_url out of its place
\* and puts the new record at the end
RECURSIVE MergeMoveToEnd(_, _, _)
MergeMoveToEnd(existing_results, seen_urls, results) ==
    IF results = <<>> THEN existing_results
    ELSE LET result == Head(results)
             url == Get(result, "page_url")
             others == SelectSeq(existing_results, LAMBDA r : Get(r, "page_url") # url)
         IN MergeMoveToEnd(Append(others, result), seen_urls, Tail(results))

\* the loop over results: replace in place or append and index
RECURSIVE MergeLoop(_, _, _)
MergeLoop(existing_results, seen_urls, results) ==
    IF results = <<>> THEN existing_results
    ELSE LET result == Head(results)
             url == Get(result, "page_url")
         IN IF url \in DOMAIN seen_urls
            THEN MergeLoop([existing_results EXCEPT ![seen_urls[url]] = result],
                           seen_urls, Tail(results))
            ELSE MergeLoop(Append(existing_results, result),
                           seen_urls @@ (url :> Len(existing_results) + 1),
                           Tail(results))

\* json.load of the store inside _save_results: only JSONDecodeError is caught
LoadExisting(file) == IF file.kind = "array" THEN file.recs ELSE <<>>

\* building seen_urls calls r.get on every element: a non-object element raises
SaveRaises(file) == file.kind = "nonrecords"

\* the file content _save_results(results, university) leaves behind
SaveResultsFile(file, results) ==
    IF SaveRaises(file) THEN file
    ELSE Array(MergeLoop(LoadExisting(file), seen_urls_of(LoadExisting(file)), results))

(***************************************************************************)
(* The detail-page worker: get_markdown_content, extract_info and          *)
(* _parse_llm_response, as called by process_detail_page.                  *)
(***************************************************************************)
\* what json.loads returns: a dict (k = "dict", its items in d) or any other
\* JSON value (a list, a string, a number, null)
EmptyDict == [f \in {} |-> JNull]
JDict(d) == [k |-> "dict", d |-> d]
JOther == [k |-> "other", d |-> EmptyDict]

\* the lines of the model's answer: a line starting with ```, a line of
\* prose, or a line holding one complete JSON text
FenceLine == [k |-> "fence", v |-> JOther]
TextLine == [k |-> "text", v |-> JOther]
JsonLine(v) == [k |-> "json", v |-> v]

\* content.startswith("```")
StartsWithFence(content) == Len(content) > 0 /\ content[1].k = "fence"

\* "\n".join(content.split("\n")[1:-1])
DropFirstAndLast(content) ==
    IF Len(content) <= 2 THEN <<>> ELSE SubSeq(content, 2, Len(content) - 1)

\* json.loads: the text parses when it is exactly one JSON text
JsonParses(content) == Len(content) = 1 /\ content[1].k = "json"

\* the record _parse_llm_response returns on JSONDecodeError
EmptyFields ==
    [ip_name |-> JStr(<<>>), ip_number |-> JStr(<<>>), published_date |-> JStr(<<>>),
     ip_description |-> JStr(<<>>), patents |-> JStr(<<>>)]

_parse_llm_response(content) ==
    LET stripped == IF StartsWithFence(content) THEN DropFirstAndLast(content) ELSE content
    IN IF JsonParses(stripped) THEN stripped[1].v ELSE JDict(EmptyFields)

\* extracted_data["page_url"] = detail_url on a dict
SetItem(d, key, value) ==
    [f \in DOMAIN d \cup {key} |-> IF f = key THEN value ELSE d[f]]

\* process_detail_page(detail_url, config): jina is the outcome of the
\* content-to-text request, llm the outcome of the extraction call.  An
\* exception of either call, and the TypeError of the item assignment on a
\* parsed value that is no dict, are caught and give the all-empty record.
process_detail_page(detail_url, jina, llm) ==
    IF jina = "error" \/ llm.raises THEN EmptyRecord(detail_url)
    ELSE LET extracted_data == _parse_llm_response(llm.content)
         IN IF extracted_data.k = "dict"
            THEN SetItem(extracted_data.d, "page_url", JStr(detail_url))
            ELSE EmptyRecord(detail_url)

(***************************************************************************)
(* State.                                                                  *)
(***************************************************************************)
VARIABLES
    store,          \* the store file of the site
    called,         \* SpecMerge: _save_results has been called
    lastResults,    \* SpecMerge: the results argument of the last call
    prevStore,      \* SpecMerge: the store file before the last call
    wIn,            \* SpecWorker: the call's detail_url and the services' outcomes;
                    \* SpecUcla: what the detail pages of the listing page answer
    wOut,           \* SpecWorker: what process_detail_page returned
    pc,             \* where the coordinating flow of scrape stands
    site,           \* which scraper runs, and the listing pages it is run against
    config,         \* ScraperConfig: max_pages, max_results, parallel
    num_results,    \* self.num_results of the TechTransferScraper object
    num_pages,      \* self.num_pages of the TechTransferScraper object
    results,        \* scrape: results
    page_count,     \* scrape: page_count
    should_stop,    \* scrape: should_stop
    processed_urls, \* scrape: processed_urls, the seen set loaded at the start
    detail_urls,    \* scrape: detail_urls of the current listing page
    futures,        \* scrape: the submitted process_detail_page calls
    page_results,   \* scrape: page_results
    pendingWrite,   \* _save_results: the list about to be dumped into the opened file
    dispatched,     \* history: the URLs handed to process_detail_page in this run
    storeAtStart,   \* history: the store file when the run started
    savedResults,   \* history: results as of the last completed save of this run
    preWrite,       \* history: the store file before the write in progress
    runs,           \* history: runs started so far
    pageStartResults, \* history: results when the current listing page began
    num_processes,  \* pooled scrapers: the size of the multiprocessing.Pool
    completion,     \* pooled scrapers: the submitted calls in the order they finished;
                    \* SpecUcla: the length of the listing at each query of the page loop
    hung,           \* pooled scrapers: the running calls whose request is never answered
    program,        \* SpecBound: which program's detail-page calls are modelled
    tasks,          \* SpecBound: the coroutines handed to asyncio.gather
    semaphore,      \* parallel_scraper.py: value of semaphore
    jina_semaphore, \* stanford_scraper.py: value of jina_semaphore
    llm_semaphore,  \* stanford_scraper.py: value of llm_semaphore
    summarized,     \* summarization_service.py: the site's <site>_summarized.json
    summary_calls   \* history: the process_single_entry calls made so far

mergeVars == <<called, lastResults, prevStore>>
workerVars == <<wIn, wOut>>
configVars == <<site, config>>
loopVars == <<results, page_count, should_stop, processed_urls, detail_urls, futures,
              page_results, num_results, num_pages>>
writeVars == <<pendingWrite, preWrite, savedResults>>
histVars == <<dispatched, storeAtStart, runs, pageStartResults>>
poolVars == <<num_processes, completion, hung>>
runVars == <<pc, configVars, loopVars, writeVars, histVars, poolVars>>
semVars == <<program, tasks, semaphore, jina_semaphore, llm_semaphore>>
sumVars == <<summarized, summary_calls>>
auxVars == <<mergeVars, workerVars, semVars, sumVars>>
vars == <<store, mergeVars, workerVars, runVars, semVars, sumVars>>

MergeIdle == called = FALSE /\ lastResults = <<>> /\ prevStore = Missing
WorkerIdle == wIn = <<>> /\ wOut = <<>>
LoopIdle ==
    /\ results = <<>> /\ page_count = 0 /\ should_stop = FALSE /\ processed_urls = {}
    /\ detail_urls = <<>> /\ futures = <<>> /\ page_results = <<>> /\ num_results = 0
    /\ num_pages = 0
WriteIdle == pendingWrite = <<>> /\ preWrite = Missing /\ savedResults = <<>>
HistIdle == dispatched = <<>> /\ storeAtStart = Missing /\ runs = 0 /\ pageStartResults = <<>>
PoolIdle == num_processes = 0 /\ completion = <<>> /\ hung = {}
SumIdle == summarized = Missing /\ summary_calls = 0
SemIdle ==
    /\ program = "none" /\ tasks = <<>>
    /\ semaphore = 0 /\ jina_semaphore = 0 /\ llm_semaphore = 0
RunIdle ==
    /\ pc = "idle" /\ site = [scraper |-> "none", listing |-> <<>>]
    /\ config = [max_pages |-> 0, max_results |-> 0, parallel |-> TRUE]
    /\ LoopIdle /\ WriteIdle /\ HistIdle /\ PoolIdle

(***************************************************************************)
(* SpecMerge: _save_results called any number of times with any result     *)
(* lists, on a store that is missing, unreadable or holds one record.      *)
(***************************************************************************)
Names == {<<"a">>, <<"b">>}
MergeRecs == {Rec(u, n, <<>>) : u \in URLS, n \in Names}

RECURSIVE SeqsUpTo(_, _)
SeqsUpTo(S, n) ==
    IF n = 0 THEN {<<>>}
    ELSE LET shorter == SeqsUpTo(S, n - 1)
         IN shorter \cup {Append(q, x) : q \in {p \in shorter : Len(p) = n - 1}, x \in S}

ResultLists == SeqsUpTo(MergeRecs, MaxResultsLen)

InitMerge ==
    /\ store \in {Missing, Invalid, NonRecords} \cup {Array(<<r>>) : r \in MergeRecs}
    /\ called = FALSE
    /\ lastResults = <<>>
    /\ prevStore = store
    /\ SumIdle
    /\ WorkerIdle
    /\ RunIdle
    /\ SemIdle

\* one whole call _save_results(results, university)
SaveResultsCall(R) ==
    /\ store' = SaveResultsFile(store, R)
    /\ called' = TRUE
    /\ lastResults' = R
    /\ prevStore' = store
    /\ UNCHANGED <<workerVars, runVars, semVars, sumVars>>

NextMerge == \E R \in ResultLists : SaveResultsCall(R)

SpecMerge == InitMerge /\ [][NextMerge]_vars

\* the index of the last record of recs for the page_url of recs[i]
IsLastFor(recs, i) ==
    \A j \in DOMAIN recs : Get(recs[j], "page_url") = Get(recs[i], "page_url") => j <= i

\* C1: a second _save_results call with the same result list leaves the store
\* file as the first call left it: same records, same order, nothing added.
IdempotentMerge ==
    called => /\ SaveResultsFile(store, lastResults) = store
              /\ Len(SaveResultsFile(store, lastResults).recs) = Len(store.recs)

IdempotentMergeWitness ==
    /\ called
    /\ prevStore.kind = "array"
    /\ Len(lastResults) = 2
    /\ Get(lastResults[1], "page_url") = Get(lastResults[2], "page_url")
    /\ lastResults[1] # lastResults[2]
    /\ Len(store.recs) >= 2
    /\ store # prevStore

\* C2: after a call the store holds, for every page_url of the result list,
\* exactly the (last) record given for it and no older one, and at no time
\* does the store hold two records with the same page_url.
UpsertByUrl ==
    /\ UniqueUrls(store.recs)
    /\ (called /\ ~SaveRaises(prevStore)) =>
          \A i \in DOMAIN lastResults :
              IsLastFor(lastResults, i) =>
                  /\ \E k \in DOMAIN store.recs : store.recs[k] = lastResults[i]
                  /\ \A k \in DOMAIN store.recs :
                        Get(store.recs[k], "page_url") = Get(lastResults[i], "page_url")
                            => store.recs[k] = lastResults[i]

UpsertByUrlWitness ==
    /\ called
    /\ \E k \in DOMAIN prevStore.recs : \E i \in DOMAIN lastResults :
          /\ Get(prevStore.recs[k], "page_url") = Get(lastResults[i], "page_url")
          /\ prevStore.recs[k] # lastResults[i]
          /\ IsLastFor(lastResults, i)
          /\ store.recs[k] = lastResults[i]
          /\ \A m \in DOMAIN store.recs : store.recs[m] # prevStore.recs[k]

(***************************************************************************)
(* SpecWorker: process_detail_page on every detail URL and every outcome   *)
(* of the two remote services.                                             *)
(***************************************************************************)
\* longest answer of the extraction model, in lines
MaxLines == 3

S20 == <<"S", "2", "0">>
S17 == <<"S", "1", "7">>
NameA == <<"a">>

\* JSON texts the extraction model may answer with
GoodObject(number) == JDict([EmptyFields EXCEPT !.ip_name = JStr(NameA), !.ip_number = JStr(number)])
PartialObject == JDict([ip_name |-> JStr(NameA)])
NullNumberObject == JDict([EmptyFields EXCEPT !.ip_name = JStr(NameA), !.ip_number = JNull])
NumericNumberObject == JDict([EmptyFields EXCEPT !.ip_name = JStr(NameA), !.ip_number = JNum(17)])
OwnUrlObject == JDict(SetItem([EmptyFields EXCEPT !.ip_name = JStr(NameA)], "page_url", JStr(U3)))

JsonTexts == {GoodObject(S20), PartialObject, NullNumberObject, NumericNumberObject,
              OwnUrlObject, JOther}
Lines == {FenceLine, TextLine} \cup {JsonLine(v) : v \in JsonTexts}

Raises == [raises |-> TRUE, content |-> <<>>]
Answers(content) == [raises |-> FALSE, content |-> content]

LlmOutcomes == {Raises} \cup {Answers(c) : c \in SeqsUpTo(Lines, MaxLines)}
JinaOutcomes == {"ok", "error"}

InitWorker ==
    /\ wIn \in [detail_url : URLS, jina : JinaOutcomes, llm : LlmOutcomes]
    /\ wOut = <<>>
    /\ store = Missing
    /\ MergeIdle /\ SumIdle
    /\ RunIdle
    /\ SemIdle

\* the call process_detail_page(detail_url, config)
ProcessDetailPageCall ==
    /\ wOut = <<>>
    /\ wOut' = <<process_detail_page(wIn.detail_url, wIn.jina, wIn.llm)>>
    /\ UNCHANGED <<wIn, store, mergeVars, sumVars, runVars, semVars>>

NextWorker == ProcessDetailPageCall

SpecWorker == InitWorker /\ [][NextWorker]_vars

\* every one of the five fields is present and holds a string
AllFieldsStrings(rec) == \A f \in Fields : f \in DOMAIN rec /\ IsStr(rec[f])

\* C4: process_detail_page returns, for every URL and every outcome of the
\* services, a record with page_url = url and the five fields present as
\* strings.
WorkerTotality ==
    wOut # <<>> =>
        /\ Get(wOut[1], "page_url") = JStr(wIn.detail_url)
        /\ AllFieldsStrings(wOut[1])

(***************************************************************************)
(* Spec: scrape of the uMinnesota and umich scrapers, run after run on one *)
(* store file, with the process killed at any point.                       *)
(***************************************************************************)
\* runs of scrape in one behaviour
MaxRuns == 2

\* the record the store holds for U1 before the first run
NameB == <<"b">>
OriginalU1 == Rec(U1, NameB, S20)

\* listing pages: the hrefs of the item links, page by page; a next-page
\* control is present on every page but the last
ListingA == << <<U1, U2, U3>>, <<U3>> >>
ListingB == << <<U2, U2>>, <<>> >>
ListingC == << <<U1, U2>> >>
Listings == {ListingA, ListingB, ListingC}

Sites == [scraper : {"uMinnesota", "umich"}, listing : Listings]
Configs == [max_pages : {0, 1}, max_results : {0, 2}, parallel : BOOLEAN]
InitialStores == {Missing, Invalid, NonRecords, Array(<<OriginalU1>>)}

\* what process_detail_page can return for a detail URL in a crawl: the
\* extraction fails (times out), or it answers a well-formed object
CrawlAnswers == {Raises, Answers(<<JsonLine(GoodObject(S20))>>)}
WorkerResults(detail_url) == {process_detail_page(detail_url, "ok", llm) : llm \in CrawlAnswers}

\* truth value of a Python object: None, "" and 0 are false
Truthy(v) == (v.t = "str" /\ v.s # <<>>) \/ (v.t = "num" /\ v.n # 0)

\* the json.load at the start of scrape: a non-object element has no .get
LoadRaises(file) == file.kind = "nonrecords"

\* a seen set that leaves out the records of failed attempts
LoadProcessedUrlsRetryFailed(file) ==
    IF file.kind = "array"
    THEN {Get(file.recs[i], "page_url") :
            i \in {j \in DOMAIN file.recs : /\ Truthy(Get(file.recs[j], "page_url"))
                                            /\ Truthy(Get(file.recs[j], "ip_name"))}}
    ELSE {}

\* processed_urls = {r.get('page_url') for r in existing_results if r.get('page_url')}
LoadProcessedUrls(file) ==
    IF file.kind = "array"
    THEN {Get(file.recs[i], "page_url") : i \in {j \in DOMAIN file.recs : Truthy(Get(file.recs[j], "page_url"))}}
    ELSE {}

\* _should_stop_scraping of uMinnesota/umich/mit/princeton: the two limits
LimitReached(cfg, nresults, npages) ==
    \/ cfg.max_results > 0 /\ nresults >= cfg.max_results
    \/ cfg.max_pages > 0 /\ npages >= cfg.max_pages

\* for result in page_results: results.append(result); self.num_results += 1;
\* if self._should_stop_scraping(...): should_stop = True; break
RECURSIVE AppendAndCheck(_, _, _, _, _)
AppendAndCheck(cfg, res, nresults, npages, todo) ==
    IF todo = <<>> THEN [results |-> res, num_results |-> nresults, should_stop |-> FALSE]
    ELSE IF LimitReached(cfg, nresults + 1, npages)
         THEN [results |-> Append(res, Head(todo)), num_results |-> nresults + 1,
               should_stop |-> TRUE]
         ELSE AppendAndCheck(cfg, Append(res, Head(todo)), nresults + 1, npages, Tail(todo))

\* a dispatch that takes every item of the page, whatever slots remain
WholePage(q, n) == q

\* items[:remaining_slots]
Prefix(q, n) == SubSeq(q, 1, IF n < Len(q) THEN n ELSE Len(q))

\* a collection that dispatches every href of the page, seen or not
RECURSIVE SkipNothing(_, _)
SkipNothing(items, seen) ==
    IF items = <<>> THEN <<>> ELSE <<Head(items)>> \o SkipNothing(Tail(items), seen)

\* the hrefs of a page that are not in the seen set, in page order
RECURSIVE SkipProcessed(_, _)
SkipProcessed(items, seen) ==
    IF items = <<>> THEN <<>>
    ELSE IF JStr(Head(items)) \in seen THEN SkipProcessed(Tail(items), seen)
         ELSE <<Head(items)>> \o SkipProcessed(Tail(items), seen)

Pending == [state |-> "pending", result |-> EmptyDict]
Done(result) == [state |-> "done", result |-> result]

Init ==
    /\ store \in InitialStores
    /\ site \in Sites
    /\ config \in Configs
    /\ pc = "idle"
    /\ LoopIdle /\ HistIdle
    /\ pendingWrite = <<>> /\ preWrite = store /\ savedResults = <<>>
    /\ MergeIdle /\ SumIdle /\ WorkerIdle /\ PoolIdle /\ SemIdle

\* scrape up to the while loop: the locals and the load of the seen set
StartScrape ==
    /\ pc = "idle"
    /\ runs < MaxRuns
    /\ runs' = runs + 1
    /\ results' = <<>> /\ page_count' = 0 /\ should_stop' = FALSE
    /\ detail_urls' = <<>> /\ futures' = <<>> /\ page_results' = <<>>
    /\ storeAtStart' = store
    /\ dispatched' = <<>>
    /\ savedResults' = <<>>
    /\ pageStartResults' = <<>>
    /\ IF LoadRaises(store)
       THEN pc' = "raised" /\ processed_urls' = {}
       ELSE pc' = "loop" /\ processed_urls' = LoadProcessedUrls(store)
    /\ UNCHANGED <<store, configVars, num_results, num_pages, pendingWrite, preWrite,
                   auxVars, poolVars>>

\* one listing page up to the dispatch of its detail URLs
BeginPage ==
    /\ pc = "loop"
    /\ page_count' = page_count + 1
    /\ pageStartResults' = results
    /\ LET items == site.listing[page_count + 1]
           remaining_slots == IF config.max_results > 0
                              THEN config.max_results - num_results ELSE Len(items)
           urls == SkipProcessed(Prefix(items, remaining_slots), processed_urls)
       IN IF remaining_slots <= 0
          THEN pc' = "returned" /\ UNCHANGED <<detail_urls, futures, page_results, dispatched>>
          ELSE /\ detail_urls' = urls
               /\ page_results' = <<>>
               /\ IF urls = <<>>
                  THEN /\ pc' = IF site.scraper = "umich" THEN "returned" ELSE "after_batch"
                       /\ UNCHANGED <<futures, dispatched>>
                  ELSE IF config.parallel
                       THEN /\ pc' = "workers"
                            /\ futures' = [i \in DOMAIN urls |-> Pending]
                            /\ dispatched' = dispatched \o urls
                       ELSE /\ pc' = "sequential"
                            /\ UNCHANGED <<futures, dispatched>>
    /\ UNCHANGED <<store, configVars, results, should_stop, processed_urls, num_results,
                   num_pages, writeVars, storeAtStart, runs, auxVars, poolVars>>

\* a worker that adds its record to the run's result list itself
WorkerFinishAppends(i) ==
    /\ pc = "workers"
    /\ i \in DOMAIN futures
    /\ futures[i].state = "pending"
    /\ \E r \in WorkerResults(detail_urls[i]) :
           /\ futures' = [futures EXCEPT ![i] = Done(r)]
           /\ results' = Append(results, r)
    /\ num_results' = num_results + 1
    /\ UNCHANGED <<store, pc, configVars, page_count, should_stop, processed_urls,
                   detail_urls, page_results, num_pages, writeVars, histVars,
                   auxVars, poolVars>>

\* a worker process finishes process_detail_page for one submitted URL
WorkerFinish(i) ==
    /\ pc = "workers"
    /\ i \in DOMAIN futures
    /\ futures[i].state = "pending"
    /\ \E r \in WorkerResults(detail_urls[i]) : futures' = [futures EXCEPT ![i] = Done(r)]
    /\ UNCHANGED <<store, pc, configVars, results, page_count, should_stop, processed_urls,
                   detail_urls, page_results, num_results, num_pages, writeVars, histVars,
                   auxVars, poolVars>>

\* f.result() of the next future, in submission order; after the last one
\* the executor is left
CollectResult ==
    /\ pc = "workers"
    /\ Len(page_results) < Len(futures)
    /\ futures[Len(page_results) + 1].state = "done"
    /\ page_results' = Append(page_results, futures[Len(page_results) + 1].result)
    /\ pc' = IF Len(page_results) + 1 = Len(futures) THEN "evaluate" ELSE "workers"
    /\ UNCHANGED <<store, configVars, results, page_count, should_stop, processed_urls,
                   detail_urls, futures, num_results, num_pages, writeVars, histVars,
                   auxVars, poolVars>>

\* sequential mode: process_detail_page of the next URL in the coordinating flow
ProcessSequential ==
    /\ pc = "sequential"
    /\ LET url == detail_urls[Len(page_results) + 1]
       IN /\ dispatched' = Append(dispatched, url)
          /\ \E r \in WorkerResults(url) : page_results' = Append(page_results, r)
    /\ pc' = IF Len(page_results) + 1 = Len(detail_urls) THEN "evaluate" ELSE "sequential"
    /\ UNCHANGED <<store, configVars, results, page_count, should_stop, processed_urls,
                   detail_urls, futures, num_results, num_pages, writeVars, storeAtStart,
                   runs, pageStartResults, auxVars, poolVars>>

\* the loop that adds the page's results and checks the limits
Evaluate ==
    /\ pc = "evaluate"
    /\ LET out == AppendAndCheck(config, results, num_results, num_pages, page_results)
       IN /\ results' = out.results
          /\ num_results' = out.num_results
          /\ should_stop' = out.should_stop
    /\ pc' = "save"
    /\ UNCHANGED <<store, configVars, page_count, processed_urls, detail_urls, futures,
                   page_results, num_pages, writeVars, histVars, auxVars, poolVars>>

\* _save_results up to open(file_path, 'w'): the merged list is built and the
\* file is truncated
SaveOpen ==
    /\ pc \in {"save", "final_save"}
    /\ IF SaveRaises(store)
       THEN pc' = "raised" /\ UNCHANGED <<store, pendingWrite, preWrite>>
       ELSE /\ pendingWrite' = SaveResultsFile(store, results).recs
            /\ preWrite' = store
            /\ store' = Invalid
            /\ pc' = IF pc = "save" THEN "writing" ELSE "final_writing"
    /\ UNCHANGED <<configVars, loopVars, savedResults, histVars, auxVars, poolVars>>

\* json.dump and the close of the file
SaveDump ==
    /\ pc \in {"writing", "final_writing"}
    /\ store' = Array(pendingWrite)
    /\ savedResults' = results
    /\ pc' = IF pc = "writing" THEN "after_batch" ELSE "returned"
    /\ UNCHANGED <<configVars, loopVars, pendingWrite, preWrite, histVars, auxVars, poolVars>>

\* a loop that goes on to a next page although no next button was found
AfterBatchNoLastPage ==
    /\ pc = "after_batch"
    /\ pc' = IF should_stop THEN "final_save"
             ELSE IF config.max_pages > 0 /\ page_count >= config.max_pages THEN "final_save"
             ELSE "loop"
    /\ UNCHANGED <<store, configVars, loopVars, writeVars, histVars, auxVars, poolVars>>

\* after the page: stop, page limit, next-button lookup and click
AfterBatch ==
    /\ pc = "after_batch"
    /\ pc' = IF site.scraper = "umich" THEN "final_save"
             ELSE IF should_stop THEN "final_save"
             ELSE IF config.max_pages > 0 /\ page_count >= config.max_pages THEN "final_save"
             ELSE IF page_count >= Len(site.listing) THEN "final_save"
             ELSE "loop"
    /\ UNCHANGED <<store, configVars, loopVars, writeVars, histVars, auxVars, poolVars>>

\* the process is killed
Kill ==
    /\ pc \notin {"idle", "returned", "raised", "killed"}
    /\ pc' = "killed"
    /\ UNCHANGED <<store, configVars, loopVars, writeVars, histVars, auxVars, poolVars>>

\* the program is started again: a new TechTransferScraper object
Restart ==
    /\ pc \in {"returned", "raised", "killed"}
    /\ runs < MaxRuns
    /\ pc' = "idle"
    /\ num_results' = 0 /\ num_pages' = 0
    /\ UNCHANGED <<store, configVars, results, page_count, should_stop, processed_urls,
                   detail_urls, futures, page_results, writeVars, histVars, auxVars, poolVars>>

\* main goes on to the next start URL: scrape is called again on the same
\* TechTransferScraper object, whose counters keep their values
MainNextStartUrl ==
    /\ pc = "returned"
    /\ runs < MaxRuns
    /\ pc' = "idle"
    /\ UNCHANGED <<store, configVars, loopVars, writeVars, histVars, auxVars, poolVars>>

Next ==
    \/ StartScrape
    \/ MainNextStartUrl
    \/ BeginPage
    \/ \E i \in DOMAIN futures : WorkerFinish(i)
    \/ CollectResult
    \/ ProcessSequential
    \/ Evaluate
    \/ SaveOpen
    \/ SaveDump
    \/ AfterBatch
    \/ Kill
    \/ Restart

Spec == Init /\ [][Next]_vars

TypeOK == pc \in {"idle", "loop", "workers", "pool", "sequential", "evaluate", "save", "writing",
                  "after_batch", "final_save", "final_writing", "returned", "raised", "killed"}

\* the records of a list whose page_url is url
HoldsUrl(recs, url) == \E k \in DOMAIN recs : Get(recs[k], "page_url") = JStr(url)

\* C3: no URL for which the store held a record when the run started is
\* handed to process_detail_page during that run.
ResumptionSkipsSeen ==
    \A i \in DOMAIN dispatched : ~HoldsUrl(storeAtStart.recs, dispatched[i])

ResumptionSkipsSeenWitness ==
    /\ HoldsUrl(storeAtStart.recs, U1)
    /\ \E i \in DOMAIN site.listing[1] : site.listing[1][i] = U1
    /\ pc = "evaluate"
    /\ page_count = 1
    /\ dispatched = <<U2, U3>>

\* C8: whenever the process is killed, the store file holds the complete
\* record set from before the write or the complete new record set.
AtomicPersistence ==
    pc = "killed" => (store = preWrite \/ store = Array(pendingWrite))

\* C9: a run started on a missing or unreadable store file treats it as
\* empty and does not abort.
FailOpenLoad ==
    (runs > 0 /\ storeAtStart.kind # "array") => (pc # "raised" /\ processed_urls = {})

\* C10: when the process is killed, the URL of every record of the batches
\* whose save completed is in the store file.
BoundedLossOnKill ==
    pc = "killed" => \A i \in DOMAIN savedResults :
                        \E k \in DOMAIN store.recs :
                            Get(store.recs[k], "page_url") = Get(savedResults[i], "page_url")

(***************************************************************************)
(* SpecStanford: scrape of stanford_scraper_parallel.py, the pooled crawl  *)
(* with the ip_number stop condition and the overwriting save.             *)
(***************************************************************************)
\* return num <= 17
StopThreshold == 17

Digits == <<"0", "1", "2", "3", "4", "5", "6", "7", "8", "9">>
IsDigit(c) == \E d \in DOMAIN Digits : Digits[d] = c
DigitValue(c) == (CHOOSE d \in DOMAIN Digits : Digits[d] = c) - 1

\* the value of a non-empty string of digits
RECURSIVE DigitsValue(_)
DigitsValue(s) ==
    IF Len(s) = 1 THEN DigitValue(s[1])
    ELSE 10 * DigitsValue(SubSeq(s, 1, Len(s) - 1)) + DigitValue(s[Len(s)])

AllDigits(s) == s # <<>> /\ \A i \in DOMAIN s : IsDigit(s[i])

\* int(s) succeeds: an optional sign and digits (no ValueError)
IntParses(s) ==
    \/ AllDigits(s)
    \/ s # <<>> /\ s[1] \in {"-", "+"} /\ AllDigits(Tail(s))

IntValue(s) ==
    IF s[1] = "-" THEN 0 - DigitsValue(Tail(s))
    ELSE IF s[1] = "+" THEN DigitsValue(Tail(s))
    ELSE DigitsValue(s)

\* ip_number.startswith('S') on a truthy value that is no str: AttributeError
StopCheckRaises(ip_number) == Truthy(ip_number) /\ ~IsStr(ip_number)

\* a stop predicate that fires at any number
StopAtAnyNumber(ip_number) ==
    /\ IsStr(ip_number) /\ ip_number.s # <<>> /\ ip_number.s[1] = "S"
    /\ IntParses(Tail(ip_number.s))

\* _should_stop_scraping(ip_number) of the Stanford scrapers
_should_stop_scraping(ip_number) ==
    /\ IsStr(ip_number) /\ ip_number.s # <<>> /\ ip_number.s[1] = "S"
    /\ IntParses(Tail(ip_number.s))
    /\ IntValue(Tail(ip_number.s)) <= StopThreshold

\* a loop that appends the result before it tests the stop condition
RECURSIVE AppendThenCheck(_, _)
AppendThenCheck(res, todo) ==
    IF todo = <<>> THEN [results |-> res, should_stop |-> FALSE, raised |-> FALSE]
    ELSE IF StopCheckRaises(Get(Head(todo), "ip_number"))
         THEN [results |-> res, should_stop |-> FALSE, raised |-> TRUE]
         ELSE IF _should_stop_scraping(Get(Head(todo), "ip_number"))
              THEN [results |-> Append(res, Head(todo)), should_stop |-> TRUE, raised |-> FALSE]
              ELSE AppendThenCheck(Append(res, Head(todo)), Tail(todo))

\* for result in page_results: if self._should_stop_scraping(...):
\* should_stop = True; break -- results.append(result)
RECURSIVE CheckThenAppend(_, _)
CheckThenAppend(res, todo) ==
    IF todo = <<>> THEN [results |-> res, should_stop |-> FALSE, raised |-> FALSE]
    ELSE IF StopCheckRaises(Get(Head(todo), "ip_number"))
         THEN [results |-> res, should_stop |-> FALSE, raised |-> TRUE]
         ELSE IF _should_stop_scraping(Get(Head(todo), "ip_number"))
              THEN [results |-> res, should_stop |-> TRUE, raised |-> FALSE]
              ELSE CheckThenAppend(Append(res, Head(todo)), Tail(todo))

\* results in the order the calls finished, as pool.imap_unordered gives them
ImapUnordered(futs, order) == [k \in DOMAIN order |-> futs[order[k]].result]

\* list(pool.imap(process_func, detail_urls)): the results in submission order
Imap(futs, order) == [i \in DOMAIN futs |-> futs[i].result]

Running == [state |-> "running", result |-> EmptyDict]
RunningCount(futs) == Cardinality({i \in DOMAIN futs : futs[i].state = "running"})

StanfordAnswers == CrawlAnswers \cup {Answers(<<JsonLine(GoodObject(S17))>>),
                                      Answers(<<JsonLine(NumericNumberObject)>>)}
StanfordResults(detail_url) ==
    {process_detail_page(detail_url, "ok", llm) : llm \in StanfordAnswers}

\* max(1, multiprocessing.cpu_count() // 2) on machines of 1 to 4 cores
PoolSizes == {1, 2}

InitStanford ==
    /\ store \in {Missing, Array(<<OriginalU1>>)}
    /\ site = [scraper |-> "stanford", listing |-> ListingA]
    /\ config = [max_pages |-> 0, max_results |-> 0, parallel |-> TRUE]
    /\ num_processes \in PoolSizes
    /\ completion = <<>> /\ hung = {}
    /\ pc = "idle"
    /\ LoopIdle /\ HistIdle
    /\ pendingWrite = <<>> /\ preWrite = store /\ savedResults = <<>>
    /\ MergeIdle /\ SumIdle /\ WorkerIdle /\ SemIdle

\* scrape up to the while loop: nothing is loaded from the store
StanfordStartScrape ==
    /\ pc = "idle"
    /\ runs < MaxRuns
    /\ runs' = runs + 1
    /\ results' = <<>> /\ page_count' = 0 /\ should_stop' = FALSE
    /\ detail_urls' = <<>> /\ futures' = <<>> /\ page_results' = <<>>
    /\ processed_urls' = {}
    /\ storeAtStart' = store
    /\ dispatched' = <<>>
    /\ savedResults' = <<>>
    /\ pageStartResults' = <<>>
    /\ completion' = <<>>
    /\ pc' = "loop"
    /\ UNCHANGED <<store, configVars, num_results, num_pages, pendingWrite, preWrite,
                   num_processes, hung, auxVars>>

\* one listing page: every href is collected and handed to pool.imap
StanfordBeginPage ==
    /\ pc = "loop"
    /\ page_count' = page_count + 1
    /\ pageStartResults' = results
    /\ detail_urls' = site.listing[page_count + 1]
    /\ futures' = [i \in DOMAIN site.listing[page_count + 1] |-> Pending]
    /\ completion' = <<>>
    /\ page_results' = <<>>
    /\ pc' = "pool"
    /\ UNCHANGED <<store, configVars, results, should_stop, processed_urls, num_results,
                   num_pages, writeVars, dispatched, storeAtStart, runs, num_processes,
                   hung, auxVars>>

\* an idle pool process takes the next queued call
PoolStart(i) ==
    /\ pc = "pool"
    /\ i \in DOMAIN futures
    /\ futures[i].state = "pending"
    /\ \A j \in DOMAIN futures : j < i => futures[j].state # "pending"
    /\ RunningCount(futures) < num_processes
    /\ futures' = [futures EXCEPT ![i] = Running]
    /\ dispatched' = Append(dispatched, detail_urls[i])
    /\ UNCHANGED <<store, pc, configVars, results, page_count, should_stop, processed_urls,
                   detail_urls, page_results, num_results, num_pages, writeVars,
                   storeAtStart, runs, pageStartResults, poolVars, auxVars>>

\* a pool process returns from process_detail_page
PoolFinish(i) ==
    /\ pc = "pool"
    /\ i \in DOMAIN futures
    /\ futures[i].state = "running"
    /\ \E r \in StanfordResults(detail_urls[i]) : futures' = [futures EXCEPT ![i] = Done(r)]
    /\ completion' = Append(completion, i)
    /\ UNCHANGED <<store, pc, configVars, results, page_count, should_stop, processed_urls,
                   detail_urls, page_results, num_results, num_pages, writeVars, histVars,
                   num_processes, hung, auxVars>>

\* a join that returns as soon as the first call has finished
PoolJoinEarly ==
    /\ pc = "pool"
    /\ \E i \in DOMAIN futures : futures[i].state = "done"
    /\ page_results' = Imap(futures, completion)
    /\ pc' = "evaluate"
    /\ UNCHANGED <<store, configVars, results, page_count, should_stop, processed_urls,
                   detail_urls, futures, num_results, num_pages, writeVars, histVars,
                   poolVars, auxVars>>

\* list(pool.imap(...)) returns once every call has finished
PoolJoin ==
    /\ pc = "pool"
    /\ \A i \in DOMAIN futures : futures[i].state = "done"
    /\ page_results' = Imap(futures, completion)
    /\ pc' = "evaluate"
    /\ UNCHANGED <<store, configVars, results, page_count, should_stop, processed_urls,
                   detail_urls, futures, num_results, num_pages, writeVars, histVars,
                   poolVars, auxVars>>

\* the loop that checks the stop condition and adds the page's results
StanfordEvaluate ==
    /\ pc = "evaluate"
    /\ LET out == CheckThenAppend(results, page_results)
       IN /\ results' = out.results
          /\ should_stop' = out.should_stop
          /\ pc' = IF out.raised THEN "raised" ELSE "save"
    /\ UNCHANGED <<store, configVars, page_count, processed_urls, detail_urls, futures,
                   page_results, num_results, num_pages, writeVars, histVars, poolVars,
                   auxVars>>

\* _save_results up to open(file_path, 'w'): the file is truncated
StanfordSaveOpen ==
    /\ pc \in {"save", "final_save"}
    /\ pendingWrite' = results
    /\ preWrite' = store
    /\ store' = Invalid
    /\ pc' = IF pc = "save" THEN "writing" ELSE "final_writing"
    /\ UNCHANGED <<configVars, loopVars, savedResults, histVars, poolVars, auxVars>>

\* a loop that looks for the next button whether or not the stop fired
StanfordAfterBatchNoStop ==
    /\ pc = "after_batch"
    /\ pc' = IF page_count >= Len(site.listing) THEN "final_save" ELSE "loop"
    /\ UNCHANGED <<store, configVars, loopVars, writeVars, histVars, poolVars, auxVars>>

\* after the page: stop, or next-button lookup and click
StanfordAfterBatch ==
    /\ pc = "after_batch"
    /\ pc' = IF should_stop THEN "final_save"
             ELSE IF page_count >= Len(site.listing) THEN "final_save"
             ELSE "loop"
    /\ UNCHANGED <<store, configVars, loopVars, writeVars, histVars, poolVars, auxVars>>

NextStanford ==
    \/ StanfordStartScrape
    \/ StanfordBeginPage
    \/ \E i \in DOMAIN futures : PoolStart(i)
    \/ \E i \in DOMAIN futures : PoolFinish(i)
    \/ PoolJoin
    \/ StanfordEvaluate
    \/ StanfordSaveOpen
    \/ SaveDump
    \/ StanfordAfterBatch
    \/ Kill
    \/ Restart

SpecStanford == InitStanford /\ [][NextStanford]_vars

\* a record satisfying the stop condition: ip_number 'S' and a number <= 17
IsTrigger(rec) == Get(rec, "ip_number") = JStr(S17)

\* the first item of the page, in page order, that resolved to a trigger
FirstTrigger(futs) ==
    CHOOSE b \in DOMAIN futs :
        IsTrigger(futs[b].result) /\ \A i \in DOMAIN futs : i < b => ~IsTrigger(futs[i].result)

InList(rec, recs) == \E k \in DOMAIN recs : recs[k] = rec

\* C5 as stated: with a page resolving, in page order, to [A, B, C] and B the
\* first trigger, the persisted set holds A and B and not C.
StopOrderingOriginal ==
    (/\ pc = "after_batch" /\ should_stop
     /\ Len(futures) = 3 /\ FirstTrigger(futures) = 2) =>
        /\ InList(futures[1].result, store.recs)
        /\ InList(futures[2].result, store.recs)
        /\ ~InList(futures[3].result, store.recs)

\* C5 amended: when the stop condition fires on a page, the records
\* persisted and returned for that page are exactly those of the items before
\* the first trigger, in page order; the trigger and every later item are
\* left out, whatever order the workers finished in.
StopOrderingAmended ==
    (should_stop /\ pc \in {"after_batch", "returned"}) =>
        /\ \E b \in DOMAIN futures : IsTrigger(futures[b].result)
        /\ results = pageStartResults \o
                        [i \in 1..(FirstTrigger(futures) - 1) |-> futures[i].result]
        /\ store = Array(results)
        /\ \A i \in DOMAIN futures :
              i >= FirstTrigger(futures) => ~InList(futures[i].result, store.recs)

StopOrderingWitness ==
    /\ pc = "after_batch" /\ should_stop
    /\ Len(futures) = 3 /\ FirstTrigger(futures) = 2
    /\ completion = <<2, 3, 1>>
    /\ store = Array(<<futures[1].result>>)

\* C7: page [u1, u2, u3], u1 in the store, u2 fails, u3 succeeds with S20:
\* after the page the store holds the original u1 record, the empty record
\* of u2 and the new record of u3, and the stop condition has not fired.
WorkedScenario ==
    (/\ pc = "after_batch" /\ page_count = 1
     /\ site.listing[1] = <<U1, U2, U3>>
     /\ storeAtStart = Array(<<OriginalU1>>)
     /\ InList(EmptyRecord(U2), page_results)
     /\ InList(Rec(U3, NameA, S20), page_results)) =>
        /\ InList(OriginalU1, store.recs)
        /\ InList(EmptyRecord(U2), store.recs)
        /\ InList(Rec(U3, NameA, S20), store.recs)
        /\ Len(store.recs) = 3
        /\ ~should_stop

\* C13: once the stop condition has fired in a run, the flow is only at the
\* saves and the return that end the run; no listing page is entered, no call
\* is dispatched and no page is handed to the pool any more, and at each
\* completed save and at the return the store file holds exactly the records
\* accumulated before the trigger.
StoppingState ==
    /\ [](should_stop => pc \in {"save", "writing", "after_batch", "final_save",
                                 "final_writing", "returned", "killed", "idle"})
    /\ [][(should_stop /\ should_stop') =>
            (page_count' = page_count /\ dispatched' = dispatched /\ futures' = futures)]_vars
    /\ []((should_stop /\ pc \in {"after_batch", "final_save", "returned"}) =>
            store = Array(results))

StoppingStateWitness ==
    /\ should_stop /\ pc = "returned"
    /\ page_count = 1 /\ Len(site.listing) = 2
    /\ Len(results) = 1
    /\ store = Array(results)
    /\ IsTrigger(futures[2].result)

\* C15: while calls of a page's batch are queued or running, the result list
\* is as it was when the page began and no stop has been decided; the check
\* loop starts only with every call of the batch finished, and only it
\* changes the result list during a run.
JoinBeforeEvaluate ==
    /\ [](pc = "pool" => (results = pageStartResults /\ ~should_stop))
    /\ [](pc = "evaluate" =>
            (/\ \A i \in DOMAIN futures : futures[i].state = "done"
             /\ Len(page_results) = Len(detail_urls)))
    /\ [][(results' # results /\ pc # "idle") => pc = "evaluate"]_vars

JoinBeforeEvaluateWitness ==
    /\ pc = "save"
    /\ completion = <<2, 3, 1>>
    /\ Len(results) = Len(pageStartResults) + 3
    /\ \A i \in DOMAIN futures : futures[i].state = "done"

\* C17: whatever the detail pages of a listing page produce, the check loop
\* of the pooled scrape evaluates the page without raising out of the run.
DetailPageNeverAborts == pc # "raised"

(***************************************************************************)
(* SpecBound: the detail-page calls in flight.  main of parallel_scraper   *)
(* gathers one coroutine per URL behind a semaphore; process_batch of      *)
(* stanford_scraper gathers one process_item per item of a batch, each     *)
(* behind the two module semaphores; the pooled scrapers hand a page's     *)
(* URLs to a multiprocessing.Pool.                                         *)
(***************************************************************************)
\* most URLs main of parallel_scraper.py gathers
MaxTasks == 5

MAX_CONCURRENT_SCRAPES == 3
MAX_CONCURRENT_REQUESTS == 5
BATCH_SIZE == 5

\* how many coroutines are at the given point
InFlight(ts, phase) == Cardinality({t \in DOMAIN ts : ts[t] = phase})

\* a coroutine that enters without waiting for the semaphore
EntersFreely(value) == TRUE

\* async with semaphore: the coroutine enters when the value is positive
CanAcquire(value) == value > 0

InitBound ==
    /\ program \in {"parallel_scraper", "stanford_scraper", "pool"}
    /\ semaphore = MAX_CONCURRENT_SCRAPES
    /\ jina_semaphore = MAX_CONCURRENT_REQUESTS
    /\ llm_semaphore = MAX_CONCURRENT_REQUESTS
    /\ tasks \in IF program = "parallel_scraper"
                 THEN UNION {[1..n -> {"waiting"}] : n \in 0..MaxTasks}
                 ELSE IF program = "stanford_scraper"
                      THEN UNION {[1..n -> {"waiting"}] : n \in 1..BATCH_SIZE}
                      ELSE {<<>>}
    /\ pc = IF program = "pool" THEN "pool" ELSE "idle"
    /\ site = [scraper |-> "mit", listing |-> ListingA]
    /\ config = [max_pages |-> 0, max_results |-> 0, parallel |-> TRUE]
    /\ num_processes \in IF program = "pool" THEN PoolSizes ELSE {0}
    /\ detail_urls \in IF program = "pool" THEN {<<U1>>, <<U1, U2, U3>>} ELSE {<<>>}
    /\ futures = [i \in DOMAIN detail_urls |-> Pending]
    /\ completion = <<>> /\ hung = {}
    /\ results = <<>> /\ page_count = 0 /\ should_stop = FALSE /\ processed_urls = {}
    /\ page_results = <<>> /\ num_results = 0 /\ num_pages = 0
    /\ store = Missing
    /\ WriteIdle /\ HistIdle /\ MergeIdle /\ SumIdle /\ WorkerIdle

\* scrape_with_semaphore(url) enters the semaphore and calls scrape_detail_page
ScrapeAcquire(t) ==
    /\ program = "parallel_scraper"
    /\ tasks[t] = "waiting"
    /\ CanAcquire(semaphore)
    /\ semaphore' = semaphore - 1
    /\ tasks' = [tasks EXCEPT ![t] = "scraping"]
    /\ UNCHANGED <<store, program, jina_semaphore, llm_semaphore, mergeVars, sumVars, workerVars,
                   runVars>>

\* scrape_detail_page returns or raises; the semaphore is released
ScrapeRelease(t) ==
    /\ program = "parallel_scraper"
    /\ tasks[t] = "scraping"
    /\ semaphore' = semaphore + 1
    /\ tasks' = [tasks EXCEPT ![t] = "done"]
    /\ UNCHANGED <<store, program, jina_semaphore, llm_semaphore, mergeVars, sumVars, workerVars,
                   runVars>>

\* get_markdown_content enters jina_semaphore and sends the request
JinaAcquire(t) ==
    /\ program = "stanford_scraper"
    /\ tasks[t] = "waiting"
    /\ CanAcquire(jina_semaphore)
    /\ jina_semaphore' = jina_semaphore - 1
    /\ tasks' = [tasks EXCEPT ![t] = "jina"]
    /\ UNCHANGED <<store, program, semaphore, llm_semaphore, mergeVars, sumVars, workerVars, runVars>>

\* the request returns (on to the extraction) or raises (process_item is done)
JinaRelease(t) ==
    /\ program = "stanford_scraper"
    /\ tasks[t] = "jina"
    /\ jina_semaphore' = jina_semaphore + 1
    /\ \E next \in {"markdown", "done"} : tasks' = [tasks EXCEPT ![t] = next]
    /\ UNCHANGED <<store, program, semaphore, llm_semaphore, mergeVars, sumVars, workerVars, runVars>>

\* extract_info_with_llm enters llm_semaphore and calls the model
LlmAcquire(t) ==
    /\ program = "stanford_scraper"
    /\ tasks[t] = "markdown"
    /\ CanAcquire(llm_semaphore)
    /\ llm_semaphore' = llm_semaphore - 1
    /\ tasks' = [tasks EXCEPT ![t] = "llm"]
    /\ UNCHANGED <<store, program, semaphore, jina_semaphore, mergeVars, sumVars, workerVars, runVars>>

\* the extraction returns or raises; process_item is done
LlmRelease(t) ==
    /\ program = "stanford_scraper"
    /\ tasks[t] = "llm"
    /\ llm_semaphore' = llm_semaphore + 1
    /\ tasks' = [tasks EXCEPT ![t] = "done"]
    /\ UNCHANGED <<store, program, semaphore, jina_semaphore, mergeVars, sumVars, workerVars, runVars>>

NextBound ==
    \/ \E t \in DOMAIN tasks : ScrapeAcquire(t)
    \/ \E t \in DOMAIN tasks : ScrapeRelease(t)
    \/ \E t \in DOMAIN tasks : JinaAcquire(t)
    \/ \E t \in DOMAIN tasks : JinaRelease(t)
    \/ \E t \in DOMAIN tasks : LlmAcquire(t)
    \/ \E t \in DOMAIN tasks : LlmRelease(t)
    \/ \E i \in DOMAIN futures : PoolStart(i)
    \/ \E i \in DOMAIN futures : PoolFinish(i)
    \/ PoolJoin

SpecBound == InitBound /\ [][NextBound]_vars

\* C6: never more than MAX_CONCURRENT_SCRAPES scrape_detail_page calls, more
\* than MAX_CONCURRENT_REQUESTS content-to-text or extraction calls, or more
\* than num_processes process_detail_page calls are in flight.
ConcurrencyBound ==
    /\ InFlight(tasks, "scraping") <= MAX_CONCURRENT_SCRAPES
    /\ InFlight(tasks, "jina") <= MAX_CONCURRENT_REQUESTS
    /\ InFlight(tasks, "llm") <= MAX_CONCURRENT_REQUESTS
    /\ program = "pool" => RunningCount(futures) <= num_processes

ConcurrencyBoundWitness ==
    /\ program = "parallel_scraper"
    /\ InFlight(tasks, "scraping") = MAX_CONCURRENT_SCRAPES
    /\ InFlight(tasks, "waiting") >= 1
    /\ InFlight(tasks, "done") >= 1

(***************************************************************************)
(* SpecMit: scrape of mit_scraper.py, the pooled crawl with the page and   *)
(* result limits and the overwriting save, run after run on one store      *)
(* file.  A listing navigation (item query, next-button lookup or click)   *)
(* may fail, and the content-to-text request of a call may never be        *)
(* answered.                                                               *)
(***************************************************************************)
MitListingA == << <<U2, U3>>, <<U3>> >>
MitListingB == << <<>>, <<U2>>, <<U3>> >>
MitSites == [scraper : {"mit"}, listing : {MitListingA, MitListingB}]
MitConfigs == [max_pages : {0, 1}, max_results : {0, 1}, parallel : BOOLEAN]

\* a save that leaves the file as it was
KeepFile(file, res) == file

\* _save_results of mit/princeton/stanford: open(file_path, 'w') and
\* json.dump(results): whatever the file held is replaced by results
OverwriteFile(file, res) == Array(res)

\* for result in page_results: if self._should_stop_scraping(...):
\* should_stop = True; break -- results.append(result); self.num_results += 1
RECURSIVE MitCheckThenAppend(_, _, _, _, _)
MitCheckThenAppend(cfg, res, nresults, npages, todo) ==
    IF todo = <<>> THEN [results |-> res, num_results |-> nresults, should_stop |-> FALSE]
    ELSE IF LimitReached(cfg, nresults, npages)
         THEN [results |-> res, num_results |-> nresults, should_stop |-> TRUE]
         ELSE MitCheckThenAppend(cfg, Append(res, Head(todo)), nresults + 1, npages, Tail(todo))

InitMit ==
    /\ store \in {Missing, Array(<<OriginalU1>>)}
    /\ site \in MitSites
    /\ config \in MitConfigs
    /\ num_processes \in PoolSizes
    /\ completion = <<>> /\ hung = {}
    /\ pc = "idle"
    /\ LoopIdle /\ HistIdle
    /\ pendingWrite = <<>> /\ preWrite = store /\ savedResults = <<>>
    /\ MergeIdle /\ SumIdle /\ WorkerIdle /\ SemIdle

\* one listing page: the item query, every href collected, and the hand-over
\* to pool.imap; in sequential mode the first detail URL raises, the scraper
\* having no _process_detail_page method
MitBeginPage ==
    /\ pc = "loop"
    /\ page_count' = page_count + 1
    /\ pageStartResults' = results
    /\ detail_urls' = site.listing[page_count + 1]
    /\ completion' = <<>> /\ hung' = {}
    /\ page_results' = <<>>
    /\ IF config.parallel
       THEN /\ futures' = [i \in DOMAIN site.listing[page_count + 1] |-> Pending]
            /\ pc' = "pool"
       ELSE /\ futures' = <<>>
            /\ pc' = IF site.listing[page_count + 1] = <<>> THEN "evaluate" ELSE "raised"
    /\ UNCHANGED <<store, configVars, results, should_stop, processed_urls, num_results,
                   num_pages, writeVars, dispatched, storeAtStart, runs, num_processes,
                   auxVars>>

\* page.query_selector_all of the item links raises
ItemQueryFails ==
    /\ pc = "loop"
    /\ page_count' = page_count + 1
    /\ pc' = "raised"
    /\ UNCHANGED <<store, configVars, results, should_stop, processed_urls, detail_urls,
                   futures, page_results, num_results, num_pages, writeVars, histVars,
                   poolVars, auxVars>>

\* requests.get of a running call is never answered; no timeout is given
RequestHangs(i) ==
    /\ pc = "pool"
    /\ i \in DOMAIN futures
    /\ futures[i].state = "running"
    /\ i \notin hung
    /\ hung' = hung \cup {i}
    /\ UNCHANGED <<store, pc, configVars, loopVars, writeVars, histVars, num_processes,
                   completion, auxVars>>

\* a pool process returns from process_detail_page
MitPoolFinish(i) ==
    /\ pc = "pool"
    /\ i \in DOMAIN futures
    /\ futures[i].state = "running"
    /\ i \notin hung
    /\ \E r \in WorkerResults(detail_urls[i]) : futures' = [futures EXCEPT ![i] = Done(r)]
    /\ completion' = Append(completion, i)
    /\ UNCHANGED <<store, pc, configVars, results, page_count, should_stop, processed_urls,
                   detail_urls, page_results, num_results, num_pages, writeVars, histVars,
                   num_processes, hung, auxVars>>

\* the loop that checks the limits and adds the page's results
MitEvaluate ==
    /\ pc = "evaluate"
    /\ LET out == MitCheckThenAppend(config, results, num_results, num_pages, page_results)
       IN /\ results' = out.results
          /\ num_results' = out.num_results
          /\ should_stop' = out.should_stop
    /\ pc' = "save"
    /\ UNCHANGED <<store, configVars, page_count, processed_urls, detail_urls, futures,
                   page_results, num_pages, writeVars, histVars, poolVars, auxVars>>

\* _save_results up to open(file_path, 'w'): the file is truncated
MitSaveOpen ==
    /\ pc \in {"save", "final_save"}
    /\ pendingWrite' = OverwriteFile(store, results).recs
    /\ preWrite' = store
    /\ store' = Invalid
    /\ pc' = IF pc = "save" THEN "writing" ELSE "final_writing"
    /\ UNCHANGED <<configVars, loopVars, savedResults, histVars, poolVars, auxVars>>

\* after the save: self.num_pages += 1, stop, or next-button lookup and click
MitAfterBatch ==
    /\ pc = "after_batch"
    /\ num_pages' = num_pages + 1
    /\ pc' = IF should_stop THEN "final_save"
             ELSE IF page_count >= Len(site.listing) THEN "final_save"
             ELSE "loop"
    /\ UNCHANGED <<store, configVars, results, page_count, should_stop, processed_urls,
                   detail_urls, futures, page_results, num_results, writeVars, histVars,
                   poolVars, auxVars>>

\* the next-button lookup, the click or the wait for the next page raises
NextButtonFails ==
    /\ pc = "after_batch"
    /\ ~should_stop
    /\ num_pages' = num_pages + 1
    /\ pc' = "raised"
    /\ UNCHANGED <<store, configVars, results, page_count, should_stop, processed_urls,
                   detail_urls, futures, page_results, num_results, writeVars, histVars,
                   poolVars, auxVars>>

NextMit ==
    \/ StanfordStartScrape
    \/ MitBeginPage
    \/ ItemQueryFails
    \/ \E i \in DOMAIN futures : PoolStart(i)
    \/ \E i \in DOMAIN futures : RequestHangs(i)
    \/ \E i \in DOMAIN futures : MitPoolFinish(i)
    \/ PoolJoin
    \/ MitEvaluate
    \/ MitSaveOpen
    \/ SaveDump
    \/ MitAfterBatch
    \/ NextButtonFails
    \/ Kill
    \/ Restart

SpecMit == InitMit /\ [][NextMit]_vars

\* C11: after every completed save of a run, the store file still holds a
\* record for every page_url it held a record for when the run started.
PersistenceMerges ==
    (runs > 0 /\ pc \in {"after_batch", "returned"}) =>
        \A k \in DOMAIN storeAtStart.recs :
            \E m \in DOMAIN store.recs :
                Get(store.recs[m], "page_url") = Get(storeAtStart.recs[k], "page_url")

\* C14: the records a listing page adds to the result list are those of its
\* detail URLs in listing order (all of them unless a limit stopped the
\* page), behind the records of the earlier pages, and the completed save
\* writes the list in that order, whatever order the workers finished in.
DiscoveryOrder ==
    pc \in {"save", "writing", "after_batch"} =>
        LET n == Len(results) - Len(pageStartResults)
        IN /\ 0 <= n /\ n <= Len(detail_urls)
           /\ ~should_stop => n = Len(detail_urls)
           /\ SubSeq(results, 1, Len(pageStartResults)) = pageStartResults
           /\ \A k \in 1..n :
                 /\ results[Len(pageStartResults) + k] = page_results[k]
                 /\ Get(results[Len(pageStartResults) + k], "page_url") = JStr(detail_urls[k])
           /\ pc = "after_batch" => store = Array(results)

DiscoveryOrderWitness ==
    /\ pc = "after_batch"
    /\ completion = <<2, 1>>
    /\ detail_urls = <<U2, U3>>
    /\ Len(results) = 2
    /\ results[1] # EmptyRecord(U2)
    /\ store = Array(results)

MitProgress ==
    \/ StanfordStartScrape
    \/ MitBeginPage
    \/ \E i \in DOMAIN futures : PoolStart(i)
    \/ \E i \in DOMAIN futures : MitPoolFinish(i)
    \/ PoolJoin
    \/ MitEvaluate
    \/ MitSaveOpen
    \/ SaveDump
    \/ MitAfterBatch

SpecMitLive == SpecMit /\ WF_vars(MitProgress)

\* C19: a page handed to the pool is always eventually joined: every
\* dispatched call completes and the coordinating flow goes on (or the
\* process is killed).
NoIndefiniteBlocking == (pc = "pool") ~> (pc # "pool")

\* C20: with max_pages > 0 a run enters (renders, and dispatches the detail
\* URLs of) at most max_pages listing pages.
MitPageLimit == config.max_pages > 0 => page_count <= config.max_pages

(***************************************************************************)
(* SpecUcla: scrape_tech_transfer of ucla_scraper.py, invoked again and    *)
(* again with a page range (--max-pages, --start-page) on one store file.  *)
(***************************************************************************)
UclaListing == << <<U1, U2>>, <<U3>>, <<U1>> >>

\* the command lines: max_pages and start_page
UclaArgs == [max_pages : {0, 1, 2}, start_page : {1, 2, 4}]

\* load_results: the parsed file, [] when it is missing or not JSON
load_results(file) == IF file.kind = "array" THEN file.recs ELSE <<>>

\* if published_year < 2018
CutoffYear == 2018

\* the published dates of the site: a year on either side of the cut-off,
\* null, and text that is no number
Year2017 == JStr(<<"2", "0", "1", "7">>)
Year2018 == JStr(<<"2", "0", "1", "8">>)

\* page.query_data(RESULT_PAGE_QUERY) on the detail page of a link: the
\* page of u1 shows the year 2018 or no date at all (the key is absent from
\* the data), that of u2 the year 2017 or null, that of u3 the year 2017 or
\* text that is no number
UclaResultData(link) ==
    IF link = U1
    THEN {[ip_name |-> JStr(NameA)], [ip_name |-> JStr(NameA), published_date |-> Year2018]}
    ELSE {[ip_name |-> JStr(NameA), published_date |-> Year2017],
          [ip_name |-> JStr(NameA),
           published_date |-> IF link = U2 THEN JNull ELSE JStr(<<"x">>)]}

\* how the visit of a detail page goes: an exception, or the queried data
UclaQueries(link) ==
    {[raises |-> TRUE, data |-> EmptyDict]}
        \cup {[raises |-> FALSE, data |-> d] : d \in UclaResultData(link)}

\* the visits of the items of a listing page
PageQueries(ip_results) ==
    {q \in [DOMAIN ip_results -> UNION {UclaQueries(u) : u \in URLS}] :
        \A i \in DOMAIN ip_results : q[i] \in UclaQueries(ip_results[i])}

\* process_single_result for one item: None after an exception ("error"),
\* None when int(result_data.get('published_date', '0')) is below 2018
\* ("old"), else the data with page_url set; a ValueError or TypeError of
\* int() keeps the record
process_single_result(link, query) ==
    IF query.raises THEN [state |-> "error", result |-> EmptyDict]
    ELSE LET result_data == query.data
             text == IF "published_date" \in DOMAIN result_data
                     THEN result_data["published_date"] ELSE JStr(<<"0">>)
             parses == text.t = "num" \/ (IsStr(text) /\ IntParses(text.s))
             published_year == IF text.t = "num" THEN text.n ELSE IntValue(text.s)
         IN IF parses /\ published_year < CutoffYear
            THEN [state |-> "old", result |-> EmptyDict]
            ELSE Done(SetItem(result_data, "page_url", JStr(link)))

\* a loop that works on the handles of the first listing query, whatever
\* the listing holds now
RECURSIVE ProcessedItemsCached(_, _, _, _)
ProcessedItemsCached(ip_results, queries, sizes, index) ==
    IF index > Len(ip_results) THEN <<>>
    ELSE <<process_single_result(ip_results[index], queries[index])>>
            \o ProcessedItemsCached(ip_results, queries, sizes, index + 1)

\* the while loop of process_page_results: before each item the listing is
\* queried again (sizes[index] elements now) and the element at the index
\* is taken; the loop stops when the refreshed list is too short
RECURSIVE ProcessedItems(_, _, _, _)
ProcessedItems(ip_results, queries, sizes, index) ==
    IF index > Len(ip_results) THEN <<>>
    ELSE IF index > sizes[index] THEN <<>>
    ELSE <<process_single_result(ip_results[index], queries[index])>>
            \o ProcessedItems(ip_results, queries, sizes, index + 1)

\* the results of a page: a None is not appended
process_page_results(processed) ==
    LET kept == SelectSeq(processed, LAMBDA f : f.state = "done")
    IN [k \in DOMAIN kept |-> kept[k].result]

\* the lengths the listing can have when it is queried again
FreshSizes(ip_results) == [DOMAIN ip_results -> {Len(ip_results) - 1, Len(ip_results)}]

InitUcla ==
    /\ store \in {Missing, Invalid}
    /\ site = [scraper |-> "ucla", listing |-> UclaListing]
    /\ config \in UclaArgs
    /\ pc = "idle"
    /\ LoopIdle /\ HistIdle /\ PoolIdle
    /\ pendingWrite = <<>> /\ preWrite = store /\ savedResults = <<>>
    /\ MergeIdle /\ SumIdle /\ WorkerIdle /\ SemIdle

\* a walk to start_page that settles for the last page it can reach
UclaStartScrapeAtLast ==
    /\ pc = "idle"
    /\ runs < MaxRuns
    /\ runs' = runs + 1
    /\ config' \in UclaArgs
    /\ results' = load_results(store)
    /\ should_stop' = FALSE
    /\ detail_urls' = <<>> /\ futures' = <<>> /\ page_results' = <<>>
    /\ processed_urls' = {}
    /\ num_pages' = 0
    /\ storeAtStart' = store
    /\ dispatched' = <<>>
    /\ savedResults' = <<>>
    /\ pageStartResults' = <<>>
    /\ IF config'.start_page > Len(site.listing)
       THEN pc' = "loop" /\ page_count' = Len(site.listing)
       ELSE pc' = "loop" /\ page_count' = config'.start_page
    /\ wIn' = <<>> /\ completion' = <<>>
    /\ UNCHANGED <<store, site, num_results, pendingWrite, preWrite, num_processes, hung,
                   mergeVars, sumVars, wOut, semVars>>

\* scrape_tech_transfer up to the page loop: the existing results are
\* loaded and the browser is walked to start_page
UclaStartScrape ==
    /\ pc = "idle"
    /\ runs < MaxRuns
    /\ runs' = runs + 1
    /\ config' \in UclaArgs
    /\ results' = load_results(store)
    /\ should_stop' = FALSE
    /\ detail_urls' = <<>> /\ futures' = <<>> /\ page_results' = <<>>
    /\ processed_urls' = {}
    /\ num_pages' = 0
    /\ storeAtStart' = store
    /\ dispatched' = <<>>
    /\ savedResults' = <<>>
    /\ pageStartResults' = <<>>
    /\ IF config'.start_page > Len(site.listing)
       THEN pc' = "returned" /\ page_count' = Len(site.listing)
       ELSE pc' = "loop" /\ page_count' = config'.start_page
    /\ wIn' = <<>> /\ completion' = <<>>
    /\ UNCHANGED <<store, site, num_results, pendingWrite, preWrite, num_processes, hung,
                   mergeVars, sumVars, wOut, semVars>>

\* one listing page: its results are collected and all_results is extended
UclaPage ==
    /\ pc = "loop"
    /\ num_pages' = num_pages + 1
    /\ pageStartResults' = results
    /\ detail_urls' = site.listing[page_count]
    /\ \E queries \in PageQueries(site.listing[page_count]),
          sizes \in FreshSizes(site.listing[page_count]) :
          /\ wIn' = queries
          /\ completion' = sizes
          /\ futures' = ProcessedItems(site.listing[page_count], queries, sizes, 1)
    /\ page_results' = process_page_results(futures')
    /\ results' = results \o page_results'
    /\ dispatched' = dispatched \o SubSeq(site.listing[page_count], 1, Len(futures'))
    /\ pc' = "save"
    /\ UNCHANGED <<store, configVars, page_count, should_stop, processed_urls,
                   num_results, writeVars, storeAtStart, runs, num_processes, hung,
                   mergeVars, sumVars, wOut, semVars>>

\* the listing query of the page raises: the except clause leaves the loop
UclaPageFails ==
    /\ pc = "loop"
    /\ num_pages' = num_pages + 1
    /\ pc' = "returned"
    /\ UNCHANGED <<store, configVars, results, page_count, should_stop, processed_urls,
                   detail_urls, futures, page_results, num_results, writeVars, histVars,
                   poolVars, auxVars>>

\* a loop that goes on as long as there is a next-page button
UclaAfterBatchNoLimit ==
    /\ pc = "after_batch"
    /\ IF page_count >= Len(site.listing)
       THEN pc' = "returned" /\ page_count' = page_count
       ELSE pc' = "loop" /\ page_count' = page_count + 1
    /\ UNCHANGED <<store, configVars, results, should_stop, processed_urls, detail_urls,
                   futures, page_results, num_results, num_pages, writeVars, histVars,
                   poolVars, auxVars>>

\* after save_results: the next-page button, the page limit and the click
UclaAfterBatch ==
    /\ pc = "after_batch"
    /\ IF page_count >= Len(site.listing) \/ num_pages >= config.max_pages
       THEN pc' = "returned" /\ page_count' = page_count
       ELSE pc' = "loop" /\ page_count' = page_count + 1
    /\ UNCHANGED <<store, configVars, results, should_stop, processed_urls, detail_urls,
                   futures, page_results, num_results, num_pages, writeVars, histVars,
                   poolVars, auxVars>>

NextUcla ==
    \/ UclaStartScrape
    \/ UclaPage
    \/ UclaPageFails
    \/ StanfordSaveOpen
    \/ SaveDump
    \/ UclaAfterBatch
    \/ Kill
    \/ Restart

SpecUcla == InitUcla /\ [][NextUcla]_vars

\* C12: the UCLA store file never holds two records with the same page_url.
UclaUrlUniqueness == UniqueUrls(store.recs)

(***************************************************************************)
(* SpecBatch: scrape_tech_transfer_site of stanford_scraper.py.  The items *)
(* of a listing page are processed in batches of BATCH_SIZE; process_batch *)
(* gathers one process_item per item and the results are saved after every *)
(* batch.                                                                  *)
(***************************************************************************)
\* process_item returned None
NoneResult == [state |-> "none", result |-> EmptyDict]

\* answers of the extraction model in a batch: a failure, a well-formed
\* object, or prose that is no JSON
BatchAnswers == CrawlAnswers \cup {Answers(<<TextLine>>)}

\* process_item(session, detail_url): the record with its page_url, None on
\* any exception (of the request, of the extraction call, or of the item
\* assignment on a parsed value that is no dict)
process_item(detail_url, jina, llm) ==
    IF jina = "error" \/ llm.raises THEN NoneResult
    ELSE LET extracted_data == _parse_llm_response(llm.content)
         IN IF extracted_data.k = "dict"
            THEN Done(SetItem(extracted_data.d, "page_url", JStr(detail_url)))
            ELSE NoneResult

ItemOutcomes(detail_url) ==
    {process_item(detail_url, jina, llm) : jina \in JinaOutcomes, llm \in BatchAnswers}

\* the items not yet handed to a batch
Unbatched(futs) == {i \in DOMAIN futs : futs[i].state = "pending"}

\* the indices of the batch whose calls finished in the given order
BatchOf(order) == {order[k] : k \in DOMAIN order}
BatchLo(order) == CHOOSE i \in BatchOf(order) : \A j \in BatchOf(order) : i <= j

\* what asyncio.gather(*tasks) returns: the outcomes in task order
Gathered(futs, order) == [k \in 1..Len(order) |-> futs[BatchLo(order) + k - 1]]

\* valid_results = [r for r in batch_results if r is not None]
RECURSIVE valid_results(_)
valid_results(batch_results) ==
    IF batch_results = <<>> THEN <<>>
    ELSE (IF Head(batch_results).state = "none" THEN <<>> ELSE <<Head(batch_results).result>>)
            \o valid_results(Tail(batch_results))

InitBatch ==
    /\ store \in {Missing, Array(<<OriginalU1>>)}
    /\ site = [scraper |-> "stanford_scraper", listing |-> ListingA]
    /\ config = [max_pages |-> 0, max_results |-> 0, parallel |-> TRUE]
    /\ pc = "idle"
    /\ LoopIdle /\ HistIdle /\ PoolIdle
    /\ pendingWrite = <<>> /\ preWrite = store /\ savedResults = <<>>
    /\ MergeIdle /\ SumIdle /\ WorkerIdle /\ SemIdle

\* one listing page: the item query; the batch loop starts
BatchBeginPage ==
    /\ pc = "loop"
    /\ page_count' = page_count + 1
    /\ pageStartResults' = results
    /\ detail_urls' = site.listing[page_count + 1]
    /\ futures' = [i \in DOMAIN site.listing[page_count + 1] |-> Pending]
    /\ completion' = <<>>
    /\ page_results' = <<>>
    /\ pc' = "after_batch"
    /\ UNCHANGED <<store, configVars, results, should_stop, processed_urls, num_results,
                   num_pages, writeVars, dispatched, storeAtStart, runs, num_processes,
                   hung, auxVars>>

\* process_batch: one process_item task for each of the next BATCH_SIZE
\* items, handed to asyncio.gather
BatchStart ==
    /\ pc = "after_batch"
    /\ Unbatched(futures) # {}
    /\ LET lo == CHOOSE i \in Unbatched(futures) : \A j \in Unbatched(futures) : i <= j
           batch == {i \in Unbatched(futures) : i < lo + BATCH_SIZE}
       IN /\ futures' = [i \in DOMAIN futures |-> IF i \in batch THEN Running ELSE futures[i]]
          /\ dispatched' = dispatched \o SubSeq(detail_urls, lo, lo + Cardinality(batch) - 1)
    /\ completion' = <<>>
    /\ pc' = "gather"
    /\ UNCHANGED <<store, configVars, results, page_count, should_stop, processed_urls,
                   detail_urls, page_results, num_results, num_pages, writeVars,
                   storeAtStart, runs, pageStartResults, num_processes, hung, auxVars>>

\* one process_item task returns
ItemFinish(i) ==
    /\ pc = "gather"
    /\ i \in DOMAIN futures
    /\ futures[i].state = "running"
    /\ \E out \in ItemOutcomes(detail_urls[i]) : futures' = [futures EXCEPT ![i] = out]
    /\ completion' = Append(completion, i)
    /\ UNCHANGED <<store, pc, configVars, results, page_count, should_stop, processed_urls,
                   detail_urls, page_results, num_results, num_pages, writeVars, histVars,
                   num_processes, hung, auxVars>>

\* gather returns; the None results are filtered out and results is extended
BatchJoin ==
    /\ pc = "gather"
    /\ \A i \in DOMAIN futures : futures[i].state # "running"
    /\ page_results' = Gathered(futures, completion)
    /\ results' = results \o valid_results(page_results')
    /\ pc' = "save"
    /\ UNCHANGED <<store, configVars, page_count, should_stop, processed_urls, detail_urls,
                   futures, num_results, num_pages, writeVars, histVars, poolVars, auxVars>>

\* the batches of the page are done: next-button lookup and click
BatchAfterPage ==
    /\ pc = "after_batch"
    /\ Unbatched(futures) = {}
    /\ pc' = IF page_count >= Len(site.listing) THEN "final_save" ELSE "loop"
    /\ UNCHANGED <<store, configVars, loopVars, writeVars, histVars, poolVars, auxVars>>

NextBatch ==
    \/ StanfordStartScrape
    \/ BatchBeginPage
    \/ BatchStart
    \/ \E i \in DOMAIN futures : ItemFinish(i)
    \/ BatchJoin
    \/ StanfordSaveOpen
    \/ SaveDump
    \/ BatchAfterPage
    \/ Kill
    \/ Restart

SpecBatch == InitBatch /\ [][NextBatch]_vars

\* C16: the results gathered for a batch of URLs d1..dn are n records, the
\* i-th with page_url di, none of them None, and each is in the result list.
AttemptedAccounting ==
    pc = "save" =>
        /\ Len(page_results) = Len(completion)
        /\ \A k \in DOMAIN page_results :
              /\ page_results[k].state = "done"
              /\ Get(page_results[k].result, "page_url")
                    = JStr(detail_urls[BatchLo(completion) + k - 1])
              /\ InList(page_results[k].result, results)

(***************************************************************************)
(* The princeton scraper (princeton_scraper.py).  Listing pages are        *)
(* addressed by a page counter that starts at 0; a page index past the end *)
(* of the listing shows no items.  The results file is overwritten by      *)
(* every save.                                                             *)
(***************************************************************************)
PrincetonListingA == << <<U1, U2>>, <<U3>> >>
PrincetonListingB == << <<U3>> >>
PrincetonSites == [scraper : {"princeton"}, listing : {PrincetonListingA, PrincetonListingB}]

\* page.goto(start_url.replace("page=0", f"page={page_count}")) and the item query
PrincetonItems(listing, index) == IF index < Len(listing) THEN listing[index + 1] ELSE <<>>

InitPrinceton ==
    /\ store \in {Missing, Array(<<OriginalU1>>)}
    /\ site \in PrincetonSites
    /\ config \in MitConfigs
    /\ num_processes \in PoolSizes
    /\ completion = <<>> /\ hung = {}
    /\ pc = "idle"
    /\ LoopIdle /\ HistIdle
    /\ pendingWrite = <<>> /\ preWrite = store /\ savedResults = <<>>
    /\ MergeIdle /\ SumIdle /\ WorkerIdle /\ SemIdle

\* one pass of the while loop up to the hand-over of the page's detail URLs:
\* the page is fetched by its index, an empty page ends the pagination, the
\* collection loop stops the run when results already holds max_results
\* records, the pool gets every collected URL and the sequential branch
\* detail_urls[:remaining_slots]
PrincetonBeginPage ==
    /\ pc = "loop"
    /\ LET items == PrincetonItems(site.listing, page_count)
           full == config.max_results > 0 /\ Len(results) >= config.max_results
           remaining_slots == IF config.max_results > 0
                              THEN config.max_results - Len(results)
                              ELSE Len(items)
       IN IF items = <<>> \/ full
          THEN /\ pc' = "final_save"
               /\ should_stop' = (items # <<>>)
               /\ UNCHANGED <<detail_urls, futures, page_results, pageStartResults,
                              completion>>
          ELSE /\ should_stop' = should_stop
               /\ pageStartResults' = results
               /\ page_results' = <<>>
               /\ completion' = <<>>
               /\ IF config.parallel
                  THEN /\ detail_urls' = items
                       /\ futures' = [i \in DOMAIN items |-> Pending]
                       /\ pc' = "pool"
                  ELSE /\ detail_urls' = Prefix(items, remaining_slots)
                       /\ futures' = <<>>
                       /\ pc' = "sequential"
    /\ UNCHANGED <<store, configVars, results, page_count, processed_urls, num_results,
                   num_pages, writeVars, dispatched, storeAtStart, runs, num_processes,
                   hung, auxVars>>

\* results.extend(page_results); self.num_results += len(page_results)
PrincetonExtend ==
    /\ pc = "evaluate"
    /\ results' = results \o page_results
    /\ num_results' = num_results + Len(page_results)
    /\ pc' = "save"
    /\ UNCHANGED <<store, configVars, page_count, should_stop, processed_urls, detail_urls,
                   futures, page_results, num_pages, writeVars, histVars, poolVars, auxVars>>

\* one turn of the sequential loop: _process_detail_page of the next URL,
\* page_results.append, results.append, self.num_results += 1
PrincetonProcessSequential ==
    /\ pc = "sequential"
    /\ Len(page_results) < Len(detail_urls)
    /\ \E r \in WorkerResults(detail_urls[Len(page_results) + 1]) :
           /\ page_results' = Append(page_results, r)
           /\ results' = Append(results, r)
    /\ dispatched' = Append(dispatched, detail_urls[Len(page_results) + 1])
    /\ num_results' = num_results + 1
    /\ pc' = IF Len(page_results) + 1 = Len(detail_urls) THEN "save" ELSE "sequential"
    /\ UNCHANGED <<store, configVars, page_count, should_stop, processed_urls, detail_urls,
                   futures, num_pages, writeVars, storeAtStart, runs, pageStartResults,
                   poolVars, auxVars>>

\* after the save: self.num_pages += 1, the result limit, page_count += 1
PrincetonAfterBatch ==
    /\ pc = "after_batch"
    /\ num_pages' = num_pages + 1
    /\ IF Len(results) >= config.max_results /\ config.max_results > 0
       THEN pc' = "final_save" /\ page_count' = page_count
       ELSE pc' = "loop" /\ page_count' = page_count + 1
    /\ UNCHANGED <<store, configVars, results, should_stop, processed_urls, detail_urls,
                   futures, page_results, num_results, writeVars, histVars, poolVars,
                   auxVars>>

NextPrinceton ==
    \/ StanfordStartScrape
    \/ PrincetonBeginPage
    \/ \E i \in DOMAIN futures : PoolStart(i)
    \/ \E i \in DOMAIN futures : MitPoolFinish(i)
    \/ PoolJoin
    \/ PrincetonExtend
    \/ PrincetonProcessSequential
    \/ MitSaveOpen
    \/ SaveDump
    \/ PrincetonAfterBatch
    \/ Kill
    \/ Restart

SpecPrinceton == InitPrinceton /\ [][NextPrinceton]_vars

\* C21: with max_pages > 0 a princeton run visits at most max_pages listing
\* pages.
PrincetonPageLimit ==
    (config.max_pages > 0 /\ pc \in {"pool", "sequential", "evaluate", "save", "writing",
                                     "after_batch"})
        => page_count + 1 <= config.max_pages

\* C22: with max_results > 0 the records of a princeton run, in the list it
\* returns and in the store it writes, never number more than max_results.
PrincetonResultLimit ==
    config.max_results > 0 =>
        /\ Len(results) <= config.max_results
        /\ (pc = "returned" => Len(store.recs) <= config.max_results)

(***************************************************************************)
(* The frame of the merging save                                           *)
(***************************************************************************)

\* the index of the first record of recs with the given page_url
FirstIndex(recs, url) ==
    CHOOSE i \in DOMAIN recs :
        /\ Get(recs[i], "page_url") = url
        /\ \A j \in DOMAIN recs : Get(recs[j], "page_url") = url => i <= j

\* C30: _save_results leaves every stored record whose page_url is not in
\* the merged list as it was, keeps the stored records in their places (a
\* replaced record takes the place of the one it replaces), and appends the
\* records of new page_urls after them in the order of the list.
MergeFrame ==
    (called /\ ~SaveRaises(prevStore)) =>
        LET old == LoadExisting(prevStore)
            new == store.recs
            appended == (Len(old) + 1) .. Len(new)
        IN /\ Len(new) >= Len(old)
           /\ \A k \in DOMAIN old :
                 /\ Get(new[k], "page_url") = Get(old[k], "page_url")
                 /\ (Get(old[k], "page_url") \notin PageUrls(lastResults) => new[k] = old[k])
           /\ \A k \in appended :
                 /\ Get(new[k], "page_url") \notin PageUrls(old)
                 /\ Get(new[k], "page_url") \in PageUrls(lastResults)
           /\ \A k, l \in appended :
                 k < l => FirstIndex(lastResults, Get(new[k], "page_url"))
                            < FirstIndex(lastResults, Get(new[l], "page_url"))

\* a call has replaced the first of two stored records, left the second as
\* it was and appended a record of a new page_url
MergeFrameWitness ==
    /\ called
    /\ prevStore.kind = "array" /\ Len(prevStore.recs) = 2
    /\ Len(store.recs) = 3
    /\ store.recs[1] # prevStore.recs[1]
    /\ store.recs[2] = prevStore.recs[2]
    /\ Len(lastResults) = 2
    /\ Get(lastResults[1], "page_url") = Get(store.recs[3], "page_url")

(***************************************************************************)
(* Limits and pagination of the uMinnesota/umich crawl                     *)
(***************************************************************************)

\* C23: with max_results > 0 the result list of a uMinnesota/umich run never
\* holds more than max_results records, and the detail URLs dispatched for a
\* page number at most max_results minus the results held when the page began.
ResultLimit ==
    config.max_results > 0 =>
        /\ Len(results) <= config.max_results
        /\ (pc \in {"workers", "sequential", "evaluate"}
                => Len(detail_urls) <= config.max_results - Len(pageStartResults))

\* a page with more items than slots has been cut down and the list is full
ResultLimitWitness ==
    /\ config.max_results > 0
    /\ pc = "save"
    /\ Len(results) = config.max_results
    /\ Len(site.listing[page_count]) > config.max_results
    /\ Len(detail_urls) = config.max_results

\* C25: on a site without a next-page control (umich, and uMinnesota when
\* the next-button query finds nothing on the first page) a run processes
\* exactly one listing page and then ends.
SinglePage ==
    (site.scraper = "umich" \/ Len(site.listing) = 1) =>
        /\ page_count <= 1
        /\ (pc = "loop" => page_count = 0)
        /\ (pc \in {"returned", "final_save", "final_writing"} => page_count = 1)

\* a uMinnesota run without limits has ended after the only page of the site
SinglePageWitness ==
    /\ site.scraper = "uMinnesota" /\ Len(site.listing) = 1
    /\ config.max_pages = 0 /\ config.max_results = 0
    /\ pc = "returned" /\ page_count = 1
    /\ ~should_stop
    /\ Len(results) = Len(site.listing[1])

\* C27: a step of a detail-page worker changes neither the store nor the
\* run's result list, seen set or counters; the store changes only in a save
\* of the coordinating flow, after every worker of the page has finished,
\* and a write that has begun is completed by its own dump.
WorkersLeaveStateAlone ==
    [][ /\ (pc = "workers" /\ futures' # futures) =>
              UNCHANGED <<store, results, processed_urls, num_results, num_pages,
                          page_count, pendingWrite>>
        /\ (store' # store) =>
              /\ pc \in {"save", "final_save", "writing", "final_writing"}
              /\ \A i \in DOMAIN futures : futures[i].state = "done"
              /\ (pc \in {"writing", "final_writing"} => store' = Array(pendingWrite))
      ]_vars

\* one worker of a page has finished while another is still at work, over a
\* store that holds records
WorkersLeaveStateAloneWitness ==
    /\ pc = "workers"
    /\ \E i, j \in DOMAIN futures : futures[i].state = "done" /\ futures[j].state = "pending"
    /\ store.kind = "array" /\ store.recs # <<>>
    /\ results = pageStartResults

\* C33: the result counter that enforces max_results belongs to one run:
\* when a run of scrape begins its pages, the counter holds the number of
\* results of this run, whatever earlier runs on the same object counted.
CountersPerRun ==
    pc \in {"loop", "workers", "sequential", "evaluate"} => num_results = Len(results)

\* C35: within one run no detail URL is dispatched twice, and the result
\* list holds at most one record per page_url.
OneDispatchPerUrl ==
    /\ \A i, j \in DOMAIN dispatched : dispatched[i] = dispatched[j] => i = j
    /\ UniqueUrls(results)

\* the all-empty records, with their page_url, that the store held when the
\* run started
FailedAtStart ==
    {k \in DOMAIN storeAtStart.recs :
        \E u \in URLS : storeAtStart.recs[k] = EmptyRecord(u)}

\* C36: a URL stored as an all-empty record with its page_url is not
\* dispatched by a later run, and every store file that run writes still
\* holds that record.
FailedUrlsSeen ==
    \A k \in FailedAtStart :
        /\ \A i \in DOMAIN dispatched :
                JStr(dispatched[i]) # Get(storeAtStart.recs[k], "page_url")
        /\ (store.kind = "array" =>
                \E m \in DOMAIN store.recs : store.recs[m] = storeAtStart.recs[k])
        /\ (pc \in {"writing", "final_writing"} =>
                \E m \in DOMAIN pendingWrite : pendingWrite[m] = storeAtStart.recs[k])

\* a later run over a store holding the empty record of a failed URL of the
\* first listing page has dispatched other URLs of that page and returned
FailedUrlsSeenWitness ==
    /\ runs = 2 /\ pc = "returned"
    /\ \E k \in FailedAtStart :
          /\ \E i \in DOMAIN site.listing[1] :
                JStr(site.listing[1][i]) = Get(storeAtStart.recs[k], "page_url")
          /\ \E m \in DOMAIN store.recs : store.recs[m] = storeAtStart.recs[k]
    /\ dispatched # <<>>
    /\ Len(store.recs) > Len(storeAtStart.recs)

(***************************************************************************)
(* Page range and published-year cut-off of the UCLA crawl                 *)
(***************************************************************************)

\* the items of the listing pages from .. to, in order
RECURSIVE ItemsOfPages(_, _, _)
ItemsOfPages(listing, from, to) ==
    IF from > to THEN <<>> ELSE listing[from] \o ItemsOfPages(listing, from + 1, to)

\* a page of the run has been processed and the run has not moved on
UclaPageDone == pc \in {"save", "writing", "after_batch"}

Processed(f) == f.state \in {"done", "old", "error"}

\* C28: once a record published before 2018 has been evaluated, no further
\* item of the UCLA listing is processed.
PublishedYearStop ==
    \A i \in DOMAIN futures : futures[i].state = "old" =>
        \A j \in DOMAIN futures : j > i => ~Processed(futures[j])

(***************************************************************************)
(* The parse of the extraction model's answer                              *)
(***************************************************************************)

\* the answer without its first line when that is a fence line and without
\* its last line when that is a fence line
StripFenceLines(content) ==
    LET tail == IF StartsWithFence(content) THEN SubSeq(content, 2, Len(content)) ELSE content
    IN IF Len(tail) > 0 /\ tail[Len(tail)].k = "fence"
       THEN SubSeq(tail, 1, Len(tail) - 1) ELSE tail

\* the parsed remainder, the all-empty record when it does not parse
ParseOfStripped(content) ==
    IF JsonParses(StripFenceLines(content)) THEN StripFenceLines(content)[1].v
    ELSE JDict(EmptyFields)

\* C26: _parse_llm_response removes a leading and a trailing fence line when
\* present and returns the parse of the remainder, the all-empty record when
\* the remainder does not parse.
ParseStripsFences ==
    (wOut # <<>> /\ wIn.jina = "ok" /\ ~wIn.llm.raises) =>
        _parse_llm_response(wIn.llm.content) = ParseOfStripped(wIn.llm.content)

(***************************************************************************)
(* SpecStop: _should_stop_scraping of the Stanford scrapers applied to one *)
(* ip_number: None, a number, or a string over a small alphabet.           *)
(***************************************************************************)
MaxNumberLen == 3

StopChars == {"S", "0", "1", "7", "8", "-", "x"}

\* the values result.get("ip_number") can hold
IpNumbers ==
    {JNull, JNum(0), JNum(17)} \cup {JStr(s) : s \in SeqsUpTo(StopChars, MaxNumberLen)}

InitStop ==
    /\ wIn \in [ip_number : IpNumbers]
    /\ wOut = <<>>
    /\ store = Missing
    /\ MergeIdle /\ SumIdle
    /\ RunIdle
    /\ SemIdle

\* the call self._should_stop_scraping(ip_number) and how it ends
ShouldStopScrapingCall ==
    /\ wOut = <<>>
    /\ wOut' = << IF StopCheckRaises(wIn.ip_number) THEN "raises"
                  ELSE IF _should_stop_scraping(wIn.ip_number) THEN "true"
                  ELSE "false" >>
    /\ UNCHANGED <<wIn, store, mergeVars, sumVars, runVars, semVars>>

NextStop == ShouldStopScrapingCall

SpecStop == InitStop /\ [][NextStop]_vars

\* the decimal numeral of a natural number
RECURSIVE Numeral(_)
Numeral(n) ==
    IF n < 10 THEN <<Digits[n + 1]>>
    ELSE Append(Numeral(n \div 10), Digits[(n % 10) + 1])

\* a digit string without its leading zeros
RECURSIVE NoLeadingZeros(_)
NoLeadingZeros(s) == IF Len(s) > 1 /\ s[1] = "0" THEN NoLeadingZeros(Tail(s)) ELSE s

\* s is written as an integer that is at most StopThreshold: a negative
\* number, or the numeral of one of 0 .. StopThreshold, with or without sign
\* and leading zeros
WritesAtMostThreshold(s) ==
    LET unsigned == IF s # <<>> /\ s[1] \in {"-", "+"} THEN Tail(s) ELSE s
    IN /\ AllDigits(unsigned)
       /\ \/ s[1] = "-"
          \/ \E n \in 0 .. StopThreshold : NoLeadingZeros(unsigned) = Numeral(n)

\* the string starts with 'S' and the rest is an integer <= StopThreshold
IsStopNumber(v) ==
    IsStr(v) /\ v.s # <<>> /\ v.s[1] = "S" /\ WritesAtMostThreshold(Tail(v.s))

\* C29: _should_stop_scraping(ip_number) returns true exactly when ip_number
\* is a string that starts with 'S' and whose remainder parses as an integer
\* of at most 17; it returns false for an empty or missing value and for
\* every other string.
StopPredicate ==
    wOut # <<>> =>
        /\ (wOut[1] = "true") <=> IsStopNumber(wIn.ip_number)
        /\ ((wIn.ip_number = JNull \/ IsStr(wIn.ip_number)) /\ ~IsStopNumber(wIn.ip_number))
               => wOut[1] = "false"

\* the predicate has answered true for 'S17'
StopPredicateWitness ==
    /\ wOut = <<"true">>
    /\ wIn.ip_number = JStr(<<"S", "1", "7">>)

(***************************************************************************)
(* The item loop, the cut-off filter and the start page of the UCLA crawl  *)
(***************************************************************************)

\* C31: process_page_results takes the element of each index from a fresh
\* query of the listing; it stops the page when the refreshed list has no
\* element at the index, processes every index at most once and at most
\* the initially counted number of items.
IndexRequery ==
    UclaPageDone =>
        /\ Len(futures) <= Len(detail_urls)
        /\ \A i \in DOMAIN futures :
              /\ i <= completion[i]
              /\ (futures[i].state = "done"
                    => Get(futures[i].result, "page_url") = JStr(detail_urls[i]))
        /\ (Len(futures) < Len(detail_urls)
              => completion[Len(futures) + 1] < Len(futures) + 1)
        /\ dispatched = SubSeq(dispatched, 1, Len(dispatched) - Len(futures))
                            \o SubSeq(detail_urls, 1, Len(futures))

\* the listing of a page counted two items, had shrunk to one when it was
\* queried for the second, and the page ended after the first item
IndexRequeryWitness ==
    /\ pc = "save"
    /\ Len(detail_urls) = 2 /\ completion = <<2, 1>>
    /\ Len(futures) = 1 /\ futures[1].state = "done"

\* the queried data gives no integer year: the date is missing or null, or
\* is text other than a year
NoIntegerYear(data) ==
    \/ "published_date" \notin DOMAIN data
    \/ data["published_date"] \notin {Year2017, Year2018}

\* C37: no record whose published_date is a year below 2018 is appended to
\* the results or written to the store; an item whose published_date is
\* missing or no integer gives a record; a failed item gives none and the
\* loop goes on with the next index.
CutoffFilter ==
    /\ \A k \in DOMAIN results : Get(results[k], "published_date") # Year2017
    /\ \A k \in DOMAIN store.recs : Get(store.recs[k], "published_date") # Year2017
    /\ UclaPageDone =>
          \A i \in DOMAIN futures :
              /\ (~wIn[i].raises /\ NoIntegerYear(wIn[i].data)) => futures[i].state = "done"
              /\ wIn[i].raises =>
                    /\ futures[i].state = "error"
                    /\ (i < Len(detail_urls) /\ completion[i + 1] >= i + 1)
                          => Len(futures) >= i + 1

\* C38: when start_page lies beyond the last listing page the run returns
\* the records it loaded from the store, has processed no item and no page,
\* and leaves the store file as it was.
UnreachableStart ==
    (pc = "returned" /\ config.start_page > Len(site.listing)) =>
        /\ results = load_results(storeAtStart)
        /\ dispatched = <<>>
        /\ num_pages = 0
        /\ store = storeAtStart

\* a second run asked for page 4 of three over a store that holds records
UnreachableStartWitness ==
    /\ pc = "returned" /\ runs = 2
    /\ config.start_page > Len(site.listing)
    /\ storeAtStart.kind = "array"
    /\ results # <<>>
    /\ results = store.recs

(***************************************************************************)
(* SpecSummarize: run_summarization_pipeline of summarization_service.py   *)
(* for one site.  store is the site's data/raw/<site>_raw.json, which the  *)
(* crawler goes on extending while and after the pipeline runs; summarized *)
(* is data/summarized/<site>_summarized.json.  results is summarizer.data  *)
(* and page_results the answers pool.imap has delivered so far.            *)
(***************************************************************************)
MaxRawLen == 2

\* the ip_description values of the raw records: text, empty, blanks only,
\* null, and a number
Described == JStr(<<"d">>)
Blank == JStr(<<" ">>)
RawRecords ==
    {[Rec(U1, NameA, S20) EXCEPT !.ip_description = d] : d \in {Described, JStr(<<>>), JNull}}
    \cup {[Rec(U2, NameB, S17) EXCEPT !.ip_description = d] : d \in {Described, Blank, JNum(1)}}
    \cup {[ip_name |-> JStr(NameA), page_url |-> JStr(U3)]}

\* clean_null_values on a record: None becomes ""
clean_null_values(entry) ==
    [k \in DOMAIN entry |-> IF entry[k] = JNull THEN JStr(<<>>) ELSE entry[k]]

\* str.strip() on a text of blanks and letters
RECURSIVE lstrip(_)
lstrip(s) == IF s # <<>> /\ Head(s) = " " THEN lstrip(Tail(s)) ELSE s
RECURSIVE rstrip(_)
rstrip(s) == IF s # <<>> /\ s[Len(s)] = " " THEN rstrip(SubSeq(s, 1, Len(s) - 1)) ELSE s
strip(s) == rstrip(lstrip(s))

\* entry.get('ip_description') and len(entry['ip_description'].strip()) > 0
\* raises AttributeError on a truthy value that is no string
DescriptionRaises(entry) ==
    LET d == Get(entry, "ip_description") IN d # JNull /\ Truthy(d) /\ d.t # "str"
HasDescription(entry) ==
    LET d == Get(entry, "ip_description")
    IN d # JNull /\ Truthy(d) /\ d.t = "str" /\ Len(strip(d.s)) > 0

filter_empty_descriptions(data) == SelectSeq(data, HasDescription)

\* load_data: json.load, clean_null_values, filter_empty_descriptions
LoadDataRaises(file) ==
    \/ file.kind \in {"invalid", "nonrecords"}
    \/ \E i \in DOMAIN file.recs : DescriptionRaises(clean_null_values(file.recs[i]))
load_data(file) ==
    filter_empty_descriptions([i \in DOMAIN file.recs |-> clean_null_values(file.recs[i])])

\* TechTransferSummarizer.process_single_entry: the two model calls and the
\* university name; an exception of either call is caught and the entry is
\* returned as far as it got
SummaryOutcomes == {"ok", "summary_raises", "teaser_raises"}
SummarizeEntry(entry, outcome) ==
    IF outcome = "summary_raises" THEN entry
    ELSE IF outcome = "teaser_raises" THEN SetItem(entry, "llm_summary", JStr(<<"s">>))
    ELSE SetItem(SetItem(SetItem(entry, "llm_summary", JStr(<<"s">>)),
                         "llm_teaser", JStr(<<"t">>)), "university", JStr(<<"u">>))

InitSummarize ==
    /\ store \in {Invalid, NonRecords} \cup {Array(q) : q \in SeqsUpTo(RawRecords, 1)}
    /\ RunIdle
    /\ MergeIdle /\ SumIdle /\ WorkerIdle /\ SemIdle

\* the crawler's save adds a record to the raw store
RawGrows ==
    /\ store.kind = "array"
    /\ Len(store.recs) < MaxRawLen
    /\ \E r \in RawRecords :
         /\ r \notin {store.recs[i] : i \in DOMAIN store.recs}
         /\ store' = Array(Append(store.recs, r))
    /\ UNCHANGED <<runVars, auxVars>>

\* if summarized_file.exists(): continue
PipelineSkip ==
    /\ pc = "idle"
    /\ summarized.kind # "missing"
    /\ pc' = "returned"
    /\ runs' = runs + 1
    /\ storeAtStart' = store
    /\ UNCHANGED <<store, configVars, loopVars, writeVars, dispatched, pageStartResults,
                   poolVars, auxVars>>

\* a pipeline that summarizes the site whether or not its file exists
PipelineLoadAlways ==
    /\ pc = "idle"
    /\ ~LoadDataRaises(store)
    /\ results' = load_data(store)
    /\ page_results' = <<>>
    /\ pc' = "pool"
    /\ runs' = runs + 1
    /\ storeAtStart' = store
    /\ UNCHANGED <<store, configVars, page_count, should_stop, processed_urls, detail_urls,
                   futures, num_results, num_pages, writeVars, dispatched, pageStartResults,
                   poolVars, auxVars>>

\* summarizer.load_data(input_file) for a site without a summarized file
PipelineLoad ==
    /\ pc = "idle"
    /\ summarized.kind = "missing"
    /\ ~LoadDataRaises(store)
    /\ results' = load_data(store)
    /\ page_results' = <<>>
    /\ pc' = "pool"
    /\ runs' = runs + 1
    /\ storeAtStart' = store
    /\ UNCHANGED <<store, configVars, page_count, should_stop, processed_urls, detail_urls,
                   futures, num_results, num_pages, writeVars, dispatched, pageStartResults,
                   poolVars, auxVars>>

\* load_data raises: the except of the pipeline ends the run
PipelineLoadRaises ==
    /\ pc = "idle"
    /\ summarized.kind = "missing"
    /\ LoadDataRaises(store)
    /\ pc' = "raised"
    /\ runs' = runs + 1
    /\ storeAtStart' = store
    /\ UNCHANGED <<store, configVars, loopVars, writeVars, dispatched, pageStartResults,
                   poolVars, auxVars>>

\* pool.imap delivers the next entry, in order
PoolSummarizes ==
    /\ pc = "pool"
    /\ Len(page_results) < Len(results)
    /\ \E outcome \in SummaryOutcomes :
         page_results' =
             Append(page_results, SummarizeEntry(results[Len(page_results) + 1], outcome))
    /\ summary_calls' = summary_calls + 1
    /\ UNCHANGED <<store, pc, configVars, results, page_count, should_stop, processed_urls,
                   detail_urls, futures, num_results, num_pages, writeVars, histVars,
                   poolVars, mergeVars, workerVars, semVars, summarized>>

\* save_data: open(output_file, 'w') creates the file, empty
SummarizedOpen ==
    /\ pc = "pool"
    /\ Len(page_results) = Len(results)
    /\ results' = page_results
    /\ pendingWrite' = page_results
    /\ preWrite' = summarized
    /\ summarized' = Invalid
    /\ pc' = "writing"
    /\ UNCHANGED <<store, configVars, page_count, should_stop, processed_urls, detail_urls,
                   futures, page_results, num_results, num_pages, savedResults, histVars,
                   poolVars, mergeVars, workerVars, semVars, summary_calls>>

\* json.dump(self.data, f, indent=2) and the close of the file
SummarizedDump ==
    /\ pc = "writing"
    /\ summarized' = Array(pendingWrite)
    /\ pc' = "returned"
    /\ UNCHANGED <<store, configVars, loopVars, writeVars, histVars, poolVars,
                   mergeVars, workerVars, semVars, summary_calls>>

NextSummarize ==
    \/ RawGrows
    \/ PipelineSkip
    \/ PipelineLoad
    \/ PipelineLoadRaises
    \/ PoolSummarizes
    \/ SummarizedOpen
    \/ SummarizedDump
    \/ Kill
    \/ Restart

SpecSummarize == InitSummarize /\ [][NextSummarize]_vars

\* the raw record an entry of the summarized file was made of
MadeOf(entry, raw) ==
    /\ DOMAIN clean_null_values(raw) \subseteq DOMAIN entry
    /\ \A k \in DOMAIN raw : entry[k] = clean_null_values(raw)[k]
    /\ DOMAIN entry \subseteq DOMAIN raw \cup {"llm_summary", "llm_teaser", "university"}

\* C39: the pipeline never changes a summarized file it found, makes no
\* summarization call for a site whose summarized file exists, and the file it
\* writes for a site without one is written once and holds only entries made
\* of raw records with a description that is not empty.
SkipIfPresent ==
    [][/\ summarized' # summarized =>
            \/ summarized.kind = "missing" /\ pc = "pool"
            \/ summarized.kind = "invalid" /\ pc = "writing" /\ preWrite.kind = "missing"
       /\ summary_calls' # summary_calls => summarized.kind = "missing"
       /\ summarized'.kind = "array" =>
            \A i \in DOMAIN summarized'.recs :
                \E j \in DOMAIN store.recs :
                    /\ MadeOf(summarized'.recs[i], store.recs[j])
                    /\ Get(store.recs[j], "ip_description").t = "str"
                    /\ strip(Get(store.recs[j], "ip_description").s) # <<>>]_vars

\* a second run has skipped a site whose raw store gained a described record
\* after its summarized file was written
SkipIfPresentWitness ==
    /\ pc = "returned"
    /\ runs = 2
    /\ summarized.kind = "array"
    /\ Len(summarized.recs) = 1
    /\ summary_calls = 1
    /\ store.kind = "array"
    /\ Len(filter_empty_descriptions(store.recs)) = 2

(***************************************************************************)
(* SpecProvenance: one detail URL taken through each of the three crawl    *)
(* entry points, from the call on the detail page to the write of the      *)
(* store file: process_detail_page and _save_results of the uMinnesota     *)
(* scraper, process_item and save_results of stanford_scraper.py, and      *)
(* scrape_detail_page and main of parallel_scraper.py.                     *)
(***************************************************************************)
\* what query_data(RESULT_PAGE_QUERY) answers: the six queried fields
QueryData(link) ==
    [ip_name |-> JStr(NameA), ip_number |-> JStr(S20), published_date |-> JStr(<<>>),
     ip_link |-> link, ip_description |-> Described, patents |-> JNull]
QueryOutcomes ==
    {[raises |-> TRUE, data |-> EmptyDict]}
    \cup {[raises |-> FALSE, data |-> QueryData(link)] : link \in {JNull, JStr(U1), JStr(U3)}}

\* scrape_detail_page(context, url) as gathered with return_exceptions=True:
\* the query result as it is, or the exception
scrape_detail_page(url, query) ==
    IF query.raises THEN [state |-> "error", result |-> EmptyDict] ELSE Done(query.data)

InitProvenance ==
    /\ wIn \in [entry : {"process_detail_page", "process_item"}, detail_url : URLS,
                jina : JinaOutcomes, llm : LlmOutcomes]
            \cup [entry : {"scrape_detail_page"}, detail_url : URLS, query : QueryOutcomes]
    /\ wOut = <<>>
    /\ store = Missing
    /\ MergeIdle /\ SumIdle
    /\ RunIdle
    /\ SemIdle

\* uMinnesota: the worker's record goes into results
DetailPageProcessed ==
    /\ wIn.entry = "process_detail_page"
    /\ wOut = <<>>
    /\ wOut' = <<Done(process_detail_page(wIn.detail_url, wIn.jina, wIn.llm))>>
    /\ UNCHANGED <<wIn, store, mergeVars, sumVars, runVars, semVars>>

\* stanford_scraper: the task of the batch returns the record or None
ItemProcessed ==
    /\ wIn.entry = "process_item"
    /\ wOut = <<>>
    /\ wOut' = <<process_item(wIn.detail_url, wIn.jina, wIn.llm)>>
    /\ UNCHANGED <<wIn, store, mergeVars, sumVars, runVars, semVars>>

\* parallel_scraper: the gathered task returns the query result or its exception
DetailPageScraped ==
    /\ wIn.entry = "scrape_detail_page"
    /\ wOut = <<>>
    /\ wOut' = <<scrape_detail_page(wIn.detail_url, wIn.query)>>
    /\ UNCHANGED <<wIn, store, mergeVars, sumVars, runVars, semVars>>

\* the results are written: merged into the store by _save_results; dumped
\* by save_results after the None results are dropped; dumped by
\* save_results after each result that is no exception
StoreWritten ==
    /\ wOut # <<>>
    /\ store = Missing
    /\ store' = IF wIn.entry = "process_detail_page"
                THEN SaveResultsFile(store, <<wOut[1].result>>)
                ELSE IF wIn.entry = "process_item" THEN Array(valid_results(wOut))
                ELSE IF wOut[1].state = "error" THEN store
                ELSE Array(<<wOut[1].result>>)
    /\ UNCHANGED <<workerVars, mergeVars, sumVars, runVars, semVars>>

NextProvenance ==
    \/ DetailPageProcessed
    \/ ItemProcessed
    \/ DetailPageScraped
    \/ StoreWritten

SpecProvenance == InitProvenance /\ [][NextProvenance]_vars

\* C34: every record a crawl entry point writes to its store file carries
\* the detail URL it was fetched from as its page_url, whatever page_url the
\* extraction output held.
ProvenanceStored ==
    store.kind = "array" =>
        \A i \in DOMAIN store.recs : Get(store.recs[i], "page_url") = JStr(wIn.detail_url)

(***************************************************************************)
(* SpecMitReturns: scrape of mit_scraper.py on its finite listings when    *)
(* every remote call returns: no query, click or request raises or hangs   *)
(* and the process is not killed.  Every step that is enabled is taken     *)
(* sooner or later.                                                        *)
(***************************************************************************)
NextMitReturns ==
    \/ StanfordStartScrape
    \/ MitBeginPage
    \/ \E i \in DOMAIN futures : PoolStart(i)
    \/ \E i \in DOMAIN futures : MitPoolFinish(i)
    \/ PoolJoin
    \/ MitEvaluate
    \/ MitSaveOpen
    \/ SaveDump
    \/ MitAfterBatch
    \/ Restart

SpecMitReturns == InitMit /\ [][NextMitReturns]_vars /\ WF_vars(NextMitReturns)

\* C32: every run of scrape that is under way ends by returning its result
\* list, and once should_stop is set no step of the run clears it or begins
\* another listing page.
RunTermination ==
    /\ (pc = "loop") ~> (pc = "returned")
    /\ [][(should_stop /\ pc # "idle") => (should_stop' /\ page_count' = page_count)]_vars

====
